---- MODULE Spec2Model ----
(***************************************************************************)
(* Model of the Fridge-data-uploader scripts: push_metrics.py (collect the *)
(* last record of every Bluefors log file of the day and push it to a      *)
(* Prometheus Pushgateway), metric_metadata.py (the metric catalogue) and  *)
(* collectall.py (first/last line report of every file of the day).        *)
(*                                                                         *)
(* Text is a sequence of one-character strings.  A file on disk is a       *)
(* record [kind, bytes]; a byte that is not valid UTF-8 is InvalidByte.    *)
(* A Python exception is a record [type, msg]; msg is the fixed part of    *)
(* the text that str(exc) renders.  A float is a normalised decimal        *)
(* [m, e] standing for m * 10^e.                                           *)
(***************************************************************************)
EXTENDS Integers, Sequences, FiniteSets, TLC

VARIABLES
    \* ---- one run of push_metrics.main -----------------------------------
    pc,             \* position of main / collect_all_metrics
    all_metrics,    \* the dict built by collect_all_metrics
    errors,         \* the log.error records, in order
    seen,           \* what each attempted file looked like when it was read
    all_filenames,  \* sorted(os.listdir(date_dir))
    idx,            \* position of the channel-file loop in all_filenames
    collected,      \* what collect_all_metrics handed back to main
    exit_code,      \* the value main returns (-1 while running)
    pushed,         \* what push_metrics sent to the Pushgateway
    fsOps,          \* every file-system operation the scripts have issued
    clock,          \* time.time(), one tick per step
    report,         \* the report that collectall.main builds, saves and posts
    \* ---- one read of a file that an external process appends to ----------
    disk,           \* the bytes of the log file
    wbuf,           \* what the writer still has to append of its record
    complete,       \* the records the writer has written completely
    rpos,           \* how many bytes the reader's handle has consumed
    last_line,      \* read_last_line's local variable
    rpc,            \* position of the reader
    rres,           \* what read_last_line returned or raised
    \* ---- a pure function applied to one input ----------------------------
    fnIn,
    fnOut

runVars == <<pc, all_metrics, errors, seen, all_filenames, idx, collected,
             exit_code, pushed, fsOps, clock, report>>
readerVars == <<disk, wbuf, complete, rpos, last_line, rpc, rres>>
fnVars == <<fnIn, fnOut>>
vars == <<runVars, readerVars, fnVars>>

----------------------------------------------------------------------------
(* Text primitives (Python str)                                            *)

\* The characters of the model's alphabets that str.isspace() accepts.
Whitespace == {" ", "\t", "\n", "\r"}

Digits == {"0", "1", "2", "3", "4", "5", "6", "7", "8", "9"}

DigitVal(c) ==
    CASE c = "0" -> 0 [] c = "1" -> 1 [] c = "2" -> 2 [] c = "3" -> 3
      [] c = "4" -> 4 [] c = "5" -> 5 [] c = "6" -> 6 [] c = "7" -> 7
      [] c = "8" -> 8 [] c = "9" -> 9

\* A byte (or byte sequence) that is not valid UTF-8, and what
\* errors="replace" decodes it to.
InvalidByte == "0xFF"
ReplacementChar == "U+FFFD"

RECURSIVE LStrip(_)
LStrip(s) ==
    IF s # <<>> /\ Head(s) \in Whitespace THEN LStrip(Tail(s)) ELSE s

RECURSIVE RStrip(_)
RStrip(s) ==
    IF s # <<>> /\ s[Len(s)] \in Whitespace
    THEN RStrip(SubSeq(s, 1, Len(s) - 1))
    ELSE s

\* str.strip()
Strip(s) == RStrip(LStrip(s))

\* index of the first occurrence of c in s at or after i, Len(s)+1 if none
RECURSIVE Find(_, _, _)
Find(s, c, i) ==
    IF i > Len(s) THEN Len(s) + 1
    ELSE IF s[i] = c THEN i
    ELSE Find(s, c, i + 1)

\* str.split(sep) for a one-character separator
RECURSIVE Split(_, _)
Split(s, sep) ==
    LET j == Find(s, sep, 1) IN
    IF j > Len(s) THEN <<s>>
    ELSE <<SubSeq(s, 1, j - 1)>> \o Split(SubSeq(s, j + 1, Len(s)), sep)

\* [f(x) for x in xs]
StripAll(xs) == [i \in 1..Len(xs) |-> Strip(xs[i])]

----------------------------------------------------------------------------
(* Python values                                                           *)

NoExc == [type |-> "", msg |-> ""]
Exc(t, m) == [type |-> t, msg |-> m]

Return(v) == [ok |-> TRUE, val |-> v, exc |-> NoExc]
Raise(t, m, none) == [ok |-> FALSE, val |-> none, exc |-> Exc(t, m)]

\* dict(): the items in insertion order, a sequence of <<key, value>> with
\* distinct keys
EmptyDict == <<>>
Keys(d) == {d[i][1] : i \in 1..Len(d)}
Get(d, k) == d[CHOOSE i \in 1..Len(d) : d[i][1] = k][2]
\* (variant: a key that is present keeps its value)
DictSet_KeepsFirst(d, k, v) ==
    IF k \in Keys(d) THEN d ELSE Append(d, <<k, v>>)
\* d[k] = v: a key that is present keeps its place
DictSet(d, k, v) ==
    IF k \in Keys(d)
    THEN [i \in 1..Len(d) |-> IF d[i][1] = k THEN <<k, v>> ELSE d[i]]
    ELSE Append(d, <<k, v>>)
\* d.update(e)
RECURSIVE DictUpdate(_, _)
DictUpdate(d, e) ==
    IF e = <<>> THEN d
    ELSE DictUpdate(DictSet(d, e[1][1], e[1][2]), Tail(e))

----------------------------------------------------------------------------
(* float(text)                                                             *)

RECURSIVE DigitRun(_, _)
DigitRun(s, i) ==
    IF i <= Len(s) /\ s[i] \in Digits THEN DigitRun(s, i + 1) ELSE i

RECURSIVE ToInt(_)
ToInt(ds) ==
    IF ds = <<>> THEN 0
    ELSE 10 * ToInt(SubSeq(ds, 1, Len(ds) - 1)) + DigitVal(ds[Len(ds)])

RECURSIVE Normalise(_, _)
Normalise(m, e) ==
    IF m = 0 THEN [m |-> 0, e |-> 0]
    ELSE IF m % 10 = 0 THEN Normalise(m \div 10, e + 1)
    ELSE [m |-> m, e |-> e]

NoFloat == [m |-> 0, e |-> 0]

\* float() of a str: surrounding whitespace is ignored; the text is
\* [sign] (digits [. [digits]] | . digits) [(e|E) [sign] digits].
\* (The alphabets of the model hold no "_", and no letters that spell inf or
\* nan, which float() accepts too.)
\* (the stages pass on the positions found so far: p1 the first digit, i1 the
\* end of the integer part, i2 the end of the fraction, p3 the first digit
\* of the exponent, i3 the end of the exponent)
FloatValue(s, p1, i1, i2, p3, i3) ==
    LET ip == SubSeq(s, p1, i1 - 1)
        fp == IF i2 > i1 THEN SubSeq(s, i1 + 1, i2 - 1) ELSE <<>>
    IN  IF /\ Len(ip) + Len(fp) >= 1
           /\ p3 > i2 => i3 > p3
           /\ i3 = Len(s) + 1
        THEN Return(Normalise(
                (IF s[1] = "-" THEN -1 ELSE 1) * ToInt(ip \o fp),
                (IF p3 > i2
                 THEN (IF s[i2 + 1] = "-" THEN -1 ELSE 1)
                        * ToInt(SubSeq(s, p3, i3 - 1))
                 ELSE 0) - Len(fp)))
        ELSE Raise("ValueError", "could not convert string to float", NoFloat)

FloatExponent(s, p1, i1, i2, p3) ==
    FloatValue(s, p1, i1, i2, p3, IF p3 > i2 THEN DigitRun(s, p3) ELSE i2)

FloatFraction(s, p1, i1, i2) ==
    FloatExponent(s, p1, i1, i2,
        IF i2 <= Len(s) /\ s[i2] \in {"e", "E"}
        THEN IF i2 + 1 <= Len(s) /\ s[i2 + 1] \in {"+", "-"}
             THEN i2 + 2 ELSE i2 + 1
        ELSE i2)

FloatInteger(s, p1, i1) ==
    FloatFraction(s, p1, i1,
        IF i1 <= Len(s) /\ s[i1] = "." THEN DigitRun(s, i1 + 1) ELSE i1)

FloatSign(s, p1) == FloatInteger(s, p1, DigitRun(s, p1))

float(text) ==
    LET s == Strip(text) IN
    FloatSign(s, IF Len(s) >= 1 /\ s[1] \in {"+", "-"} THEN 2 ELSE 1)

----------------------------------------------------------------------------
(* Files and read_last_line                                                *)

Missing == [kind |-> "missing", bytes |-> <<>>]   \* the path does not exist
Denied == [kind |-> "denied", bytes |-> <<>>]     \* open() is refused
IoError == [kind |-> "ioerror", bytes |-> <<>>]   \* the read itself fails
File(b) == [kind |-> "file", bytes |-> b]

\* bytes.decode("utf-8", errors="strict") succeeds
Utf8Valid(bytes) == \A i \in 1..Len(bytes) : bytes[i] # InvalidByte

\* bytes.decode("utf-8", errors="replace")
DecodeReplace(bytes) ==
    [i \in 1..Len(bytes) |->
        IF bytes[i] = InvalidByte THEN ReplacementChar ELSE bytes[i]]

\* Text mode, newline=None: "\r\n" and "\r" are read as "\n".
RECURSIVE TranslateNewlines(_)
TranslateNewlines(t) ==
    IF t = <<>> THEN <<>>
    ELSE IF Head(t) = "\r"
         THEN IF Len(t) >= 2 /\ t[2] = "\n"
              THEN <<"\n">> \o TranslateNewlines(SubSeq(t, 3, Len(t)))
              ELSE <<"\n">> \o TranslateNewlines(Tail(t))
         ELSE <<Head(t)>> \o TranslateNewlines(Tail(t))

\* The lines a text handle iterates over: each ends with its "\n", except a
\* last line that the file does not terminate.
RECURSIVE SplitLines(_)
SplitLines(t) ==
    IF t = <<>> THEN <<>>
    ELSE LET j == Find(t, "\n", 1) IN
         IF j > Len(t) THEN <<t>>
         ELSE <<SubSeq(t, 1, j)>> \o SplitLines(SubSeq(t, j + 1, Len(t)))

\* (variant: every failure to open or read is one generic OSError)
OpenForRead_OneKind(f) ==
    IF f.kind = "file" THEN NoExc ELSE Exc("OSError", "cannot read file")

\* open(file_path, "r", encoding="utf-8"): the exception it raises, or NoExc
OpenForRead(f) ==
    CASE f.kind = "missing" ->
            Exc("FileNotFoundError", "[Errno 2] No such file or directory")
      [] f.kind = "denied" ->
            Exc("PermissionError", "[Errno 13] Permission denied")
      [] f.kind = "ioerror" ->
            Exc("OSError", "[Errno 5] Input/output error")
      [] OTHER -> NoExc

\* (variant: every line, blank or not, is kept as the last line)
RECURSIVE LastLineLoop_Overwrite(_, _)
LastLineLoop_Overwrite(lines, last) ==
    IF lines = <<>> THEN last
    ELSE LastLineLoop_Overwrite(Tail(lines), Head(lines))

\* for line in handle: if line.strip(): last_line = line
RECURSIVE LastLineLoop(_, _)
LastLineLoop(lines, last) ==
    IF lines = <<>> THEN last
    ELSE LastLineLoop(Tail(lines),
                      IF Strip(Head(lines)) # <<>> THEN Head(lines) ELSE last)

\* The last six lines of read_last_line, on the decoded text of the file.
LastLineOf(text) ==
    LET last == LastLineLoop(SplitLines(TranslateNewlines(text)), <<>>) IN
    IF last = <<>>
    THEN Raise("ValueError", "File is empty", <<>>)
    ELSE Return(Strip(last))

\* push_metrics.read_last_line: the file is decoded strictly, so one
\* invalid byte anywhere raises UnicodeDecodeError (a ValueError).
read_last_line(f) ==
    IF OpenForRead(f) # NoExc
    THEN [ok |-> FALSE, val |-> <<>>, exc |-> OpenForRead(f)]
    ELSE IF ~Utf8Valid(f.bytes)
    THEN Raise("UnicodeDecodeError", "'utf-8' codec can't decode byte", <<>>)
    ELSE LastLineOf(f.bytes)

----------------------------------------------------------------------------
(* Characters: code points, case, the character classes of the patterns    *)

\* chr(32) .. chr(126); the double quote, the backslash and the backtick are
\* written as their code points
Ascii ==
    <<" ", "!", "0x22", "#", "$", "%", "&", "'", "(", ")", "*", "+", ",",
      "-", ".", "/", "0", "1", "2", "3", "4", "5", "6", "7", "8", "9", ":",
      ";", "<", "=", ">", "?", "@", "A", "B", "C", "D", "E", "F", "G", "H",
      "I", "J", "K", "L", "M", "N", "O", "P", "Q", "R", "S", "T", "U", "V",
      "W", "X", "Y", "Z", "[", "0x5C", "]", "^", "_", "0x60", "a", "b", "c",
      "d", "e", "f", "g", "h", "i", "j", "k", "l", "m", "n", "o", "p", "q",
      "r", "s", "t", "u", "v", "w", "x", "y", "z", "{", "|", "}", "~">>

\* ord(c), tabulated once
CodePoints ==
    [c \in {Ascii[i] : i \in 1..Len(Ascii)} |->
        31 + (CHOOSE i \in 1..Len(Ascii) : Ascii[i] = c)]

Ord(c) ==
    CASE c = "\t" -> 9
      [] c = "\n" -> 10
      [] c = "\r" -> 13
      [] c = InvalidByte -> 255
      [] c = ReplacementChar -> 65533
      [] OTHER -> CodePoints[c]

AsciiChars == {Ascii[i] : i \in 1..Len(Ascii)}
UpperChars == {c \in AsciiChars : CodePoints[c] \in 65..90}
LowerChars == {c \in AsciiChars : CodePoints[c] \in 97..122}

IsUpper(c) == c \in UpperChars
IsLower(c) == c \in LowerChars
IsDigit(c) == c \in Digits

\* str.lower() and str.upper() of one character
LowerChar(c) == IF IsUpper(c) THEN Ascii[Ord(c) + 32 - 31] ELSE c
UpperChar(c) == IF IsLower(c) THEN Ascii[Ord(c) - 32 - 31] ELSE c
Lower(s) == [i \in 1..Len(s) |-> LowerChar(s[i])]
Upper(s) == [i \in 1..Len(s) |-> UpperChar(s[i])]

\* s < t for two str (code point order, a proper prefix first)
RECURSIVE StrLess(_, _)
StrLess(s, t) ==
    IF t = <<>> THEN FALSE
    ELSE IF s = <<>> THEN TRUE
    ELSE IF Head(s) # Head(t) THEN Ord(Head(s)) < Ord(Head(t))
    ELSE StrLess(Tail(s), Tail(t))

\* sorted(names) for a collection of distinct str
RECURSIVE Sorted(_)
Sorted(S) ==
    IF S = {} THEN <<>>
    ELSE LET least == CHOOSE x \in S : \A y \in S \ {x} : StrLess(x, y) IN
         <<least>> \o Sorted(S \ {least})

\* re.sub(pattern, "_", s) where the pattern is one negated character class
SubClass(keep(_), s) ==
    [i \in 1..Len(s) |-> IF keep(s[i]) THEN s[i] ELSE "_"]

----------------------------------------------------------------------------
(* metric_metadata.py                                                      *)

METRIC_METADATA ==
    <<
      [raw |-> <<"c", "p", "a", "h", "p">>,
       metric_name |-> <<"c", "p", "a", "h", "p", "_", "m", "b", "a", "r">>,
       description |-> "Compressor high pressure [Status file] (cpahp)",
       unit_suffix |-> <<"_", "m", "b", "a", "r">>,
       group |-> "compressor"],
      [raw |-> <<"c", "p", "a", "h", "p", "a">>,
       metric_name |-> <<"c", "p", "a", "h", "p", "a", "_", "m", "b", "a", "r">>,
       description |-> "Compressor high pressure actual [Status file] (cpahpa)",
       unit_suffix |-> <<"_", "m", "b", "a", "r">>,
       group |-> "compressor"],
      [raw |-> <<"c", "p", "a", "l", "p">>,
       metric_name |-> <<"c", "p", "a", "l", "p", "_", "m", "b", "a", "r">>,
       description |-> "Compressor low pressure [Status file] (cpalp)",
       unit_suffix |-> <<"_", "m", "b", "a", "r">>,
       group |-> "compressor"],
      [raw |-> <<"c", "p", "a", "l", "p", "a">>,
       metric_name |-> <<"c", "p", "a", "l", "p", "a", "_", "m", "b", "a", "r">>,
       description |-> "Compressor low pressure actual [Status file] (cpalpa)",
       unit_suffix |-> <<"_", "m", "b", "a", "r">>,
       group |-> "compressor"],
      [raw |-> <<"c", "p", "a", "d", "p">>,
       metric_name |-> <<"c", "p", "a", "d", "p", "_", "m", "b", "a", "r">>,
       description |-> "Compressor differential pressure [Status file] (cpadp)",
       unit_suffix |-> <<"_", "m", "b", "a", "r">>,
       group |-> "compressor"],
      [raw |-> <<"c", "p", "a", "t", "e", "m", "p", "w", "i">>,
       metric_name |-> <<"c", "p", "a", "t", "e", "m", "p", "w", "i", "_", "c", "e", "l", "s", "i", "u", "s">>,
       description |-> "Compressor water inlet temperature [Status file] (cpatempwi)",
       unit_suffix |-> <<"_", "c", "e", "l", "s", "i", "u", "s">>,
       group |-> "compressor"],
      [raw |-> <<"c", "p", "a", "t", "e", "m", "p", "w", "o">>,
       metric_name |-> <<"c", "p", "a", "t", "e", "m", "p", "w", "o", "_", "c", "e", "l", "s", "i", "u", "s">>,
       description |-> "Compressor water outlet temperature [Status file] (cpatempwo)",
       unit_suffix |-> <<"_", "c", "e", "l", "s", "i", "u", "s">>,
       group |-> "compressor"],
      [raw |-> <<"c", "p", "a", "t", "e", "m", "p", "o">>,
       metric_name |-> <<"c", "p", "a", "t", "e", "m", "p", "o", "_", "c", "e", "l", "s", "i", "u", "s">>,
       description |-> "Compressor output temperature [Status file] (cpatempo)",
       unit_suffix |-> <<"_", "c", "e", "l", "s", "i", "u", "s">>,
       group |-> "compressor"],
      [raw |-> <<"c", "p", "a", "t", "e", "m", "p", "h">>,
       metric_name |-> <<"c", "p", "a", "t", "e", "m", "p", "h", "_", "c", "e", "l", "s", "i", "u", "s">>,
       description |-> "Compressor helium temperature [Status file] (cpatemph)",
       unit_suffix |-> <<"_", "c", "e", "l", "s", "i", "u", "s">>,
       group |-> "compressor"],
      [raw |-> <<"c", "p", "a", "c", "u", "r", "r", "e", "n", "t">>,
       metric_name |-> <<"c", "p", "a", "c", "u", "r", "r", "e", "n", "t", "_", "a", "m", "p", "e", "r", "e", "s">>,
       description |-> "Compressor motor current [Status file] (cpacurrent)",
       unit_suffix |-> <<"_", "a", "m", "p", "e", "r", "e", "s">>,
       group |-> "compressor"],
      [raw |-> <<"c", "p", "a", "h", "o", "u", "r", "s">>,
       metric_name |-> <<"c", "p", "a", "h", "o", "u", "r", "s", "_", "h", "o", "u", "r", "s">>,
       description |-> "Compressor total operating hours [Status file] (cpahours)",
       unit_suffix |-> <<"_", "h", "o", "u", "r", "s">>,
       group |-> "compressor"],
      [raw |-> <<"t", "c", "4", "0", "0", "a", "c", "t", "u", "a", "l", "s", "p", "d">>,
       metric_name |-> <<"t", "c", "4", "0", "0", "a", "c", "t", "u", "a", "l", "s", "p", "d", "_", "h", "z">>,
       description |-> "Turbo pump actual speed [Status file] (tc400actualspd)",
       unit_suffix |-> <<"_", "h", "z">>,
       group |-> "turbo_pump"],
      [raw |-> <<"t", "c", "4", "0", "0", "d", "r", "v", "p", "o", "w", "e", "r">>,
       metric_name |-> <<"t", "c", "4", "0", "0", "d", "r", "v", "p", "o", "w", "e", "r", "_", "w", "a", "t", "t", "s">>,
       description |-> "Turbo pump drive power [Status file] (tc400drvpower)",
       unit_suffix |-> <<"_", "w", "a", "t", "t", "s">>,
       group |-> "turbo_pump"],
      [raw |-> <<"n", "x", "d", "s", "p", "t">>,
       metric_name |-> <<"n", "x", "d", "s", "p", "t">>,
       description |-> "Scroll pump tip temperature raw sensor value [Status file] (nxdspt)",
       unit_suffix |-> <<>>,
       group |-> "scroll_pump"],
      [raw |-> <<"n", "x", "d", "s", "c", "t">>,
       metric_name |-> <<"n", "x", "d", "s", "c", "t">>,
       description |-> "Scroll pump controller temperature raw sensor value [Status file] (nxdsct)",
       unit_suffix |-> <<>>,
       group |-> "scroll_pump"],
      [raw |-> <<"n", "x", "d", "s", "f">>,
       metric_name |-> <<"n", "x", "d", "s", "f", "_", "h", "z">>,
       description |-> "Scroll pump frequency [Status file] (nxdsf)",
       unit_suffix |-> <<"_", "h", "z">>,
       group |-> "scroll_pump"],
      [raw |-> <<"n", "x", "d", "s", "t", "r", "s">>,
       metric_name |-> <<"n", "x", "d", "s", "t", "r", "s", "_", "s", "e", "c", "o", "n", "d", "s">>,
       description |-> "Scroll pump running time [Status file] (nxdstrs)",
       unit_suffix |-> <<"_", "s", "e", "c", "o", "n", "d", "s">>,
       group |-> "scroll_pump"],
      [raw |-> <<"c", "t", "r", "l", "_", "p", "r", "e", "s">>,
       metric_name |-> <<"c", "t", "r", "l", "_", "p", "r", "e", "s", "_", "m", "b", "a", "r">>,
       description |-> "Control pressure [Status file] (ctrl_pres)",
       unit_suffix |-> <<"_", "m", "b", "a", "r">>,
       group |-> "probe_control"],
      [raw |-> <<"c", "h", "1", "_", "t">>,
       metric_name |-> <<"c", "h", "1", "_", "t", "_", "k", "e", "l", "v", "i", "n">>,
       description |-> "50K flange temperature [CH1 T file] (ch1_t)",
       unit_suffix |-> <<"_", "k", "e", "l", "v", "i", "n">>,
       group |-> "fridge_temps"],
      [raw |-> <<"c", "h", "1", "_", "r">>,
       metric_name |-> <<"c", "h", "1", "_", "r", "_", "o", "h", "m", "s">>,
       description |-> "50K flange resistance [CH1 R file] (ch1_r)",
       unit_suffix |-> <<"_", "o", "h", "m", "s">>,
       group |-> "fridge_resistance"],
      [raw |-> <<"c", "h", "2", "_", "t">>,
       metric_name |-> <<"c", "h", "2", "_", "t", "_", "k", "e", "l", "v", "i", "n">>,
       description |-> "4K flange temperature [CH2 T file] (ch2_t)",
       unit_suffix |-> <<"_", "k", "e", "l", "v", "i", "n">>,
       group |-> "fridge_temps"],
      [raw |-> <<"c", "h", "2", "_", "r">>,
       metric_name |-> <<"c", "h", "2", "_", "r", "_", "o", "h", "m", "s">>,
       description |-> "4K flange resistance [CH2 R file] (ch2_r)",
       unit_suffix |-> <<"_", "o", "h", "m", "s">>,
       group |-> "fridge_resistance"],
      [raw |-> <<"c", "h", "5", "_", "t">>,
       metric_name |-> <<"c", "h", "5", "_", "t", "_", "k", "e", "l", "v", "i", "n">>,
       description |-> "Still temperature [CH5 T file] (ch5_t)",
       unit_suffix |-> <<"_", "k", "e", "l", "v", "i", "n">>,
       group |-> "fridge_temps"],
      [raw |-> <<"c", "h", "5", "_", "r">>,
       metric_name |-> <<"c", "h", "5", "_", "r", "_", "o", "h", "m", "s">>,
       description |-> "Still resistance [CH5 R file] (ch5_r)",
       unit_suffix |-> <<"_", "o", "h", "m", "s">>,
       group |-> "fridge_resistance"],
      [raw |-> <<"c", "h", "6", "_", "t">>,
       metric_name |-> <<"c", "h", "6", "_", "t", "_", "k", "e", "l", "v", "i", "n">>,
       description |-> "MXC (mixing chamber) temperature, mK-range raw value in K [CH6 T file] (ch6_t)",
       unit_suffix |-> <<"_", "k", "e", "l", "v", "i", "n">>,
       group |-> "fridge_temps"],
      [raw |-> <<"c", "h", "6", "_", "r">>,
       metric_name |-> <<"c", "h", "6", "_", "r", "_", "o", "h", "m", "s">>,
       description |-> "MXC (mixing chamber) resistance [CH6 R file] (ch6_r)",
       unit_suffix |-> <<"_", "o", "h", "m", "s">>,
       group |-> "fridge_resistance"],
      [raw |-> <<"c", "h", "9", "_", "t">>,
       metric_name |-> <<"c", "h", "9", "_", "t", "_", "k", "e", "l", "v", "i", "n">>,
       description |-> "FSE (fridge sample environment) temperature, mK-range raw value in K [CH9 T file] (ch9_t)",
       unit_suffix |-> <<"_", "k", "e", "l", "v", "i", "n">>,
       group |-> "fridge_temps"],
      [raw |-> <<"c", "h", "9", "_", "r">>,
       metric_name |-> <<"c", "h", "9", "_", "r", "_", "o", "h", "m", "s">>,
       description |-> "FSE (fridge sample environment) resistance [CH9 R file] (ch9_r)",
       unit_suffix |-> <<"_", "o", "h", "m", "s">>,
       group |-> "fridge_resistance"],
      [raw |-> <<"f", "l", "o", "w", "m", "e", "t", "e", "r">>,
       metric_name |-> <<"f", "l", "o", "w", "m", "e", "t", "e", "r", "_", "m", "m", "o", "l", "_", "p", "e", "r", "_", "s">>,
       description |-> "Mixture flow rate [Flowmeter file] (flowmeter)",
       unit_suffix |-> <<"_", "m", "m", "o", "l", "_", "p", "e", "r", "_", "s">>,
       group |-> "flow"],
      [raw |-> <<"m", "a", "x", "i", "g", "a", "u", "g", "e", "_", "c", "h", "1">>,
       metric_name |-> <<"m", "a", "x", "i", "g", "a", "u", "g", "e", "_", "c", "h", "1", "_", "p", "r", "e", "s", "s", "u", "r", "e", "_", "m", "b", "a", "r">>,
       description |-> "Maxigauge CH1 pressure [maxigauge file] (maxigauge_ch1)",
       unit_suffix |-> <<"_", "p", "r", "e", "s", "s", "u", "r", "e", "_", "m", "b", "a", "r">>,
       group |-> "maxigauge"],
      [raw |-> <<"m", "a", "x", "i", "g", "a", "u", "g", "e", "_", "c", "h", "2">>,
       metric_name |-> <<"m", "a", "x", "i", "g", "a", "u", "g", "e", "_", "c", "h", "2", "_", "p", "r", "e", "s", "s", "u", "r", "e", "_", "m", "b", "a", "r">>,
       description |-> "Maxigauge CH2 pressure [maxigauge file] (maxigauge_ch2)",
       unit_suffix |-> <<"_", "p", "r", "e", "s", "s", "u", "r", "e", "_", "m", "b", "a", "r">>,
       group |-> "maxigauge"],
      [raw |-> <<"m", "a", "x", "i", "g", "a", "u", "g", "e", "_", "c", "h", "3">>,
       metric_name |-> <<"m", "a", "x", "i", "g", "a", "u", "g", "e", "_", "c", "h", "3", "_", "p", "r", "e", "s", "s", "u", "r", "e", "_", "m", "b", "a", "r">>,
       description |-> "Maxigauge CH3 pressure [maxigauge file] (maxigauge_ch3)",
       unit_suffix |-> <<"_", "p", "r", "e", "s", "s", "u", "r", "e", "_", "m", "b", "a", "r">>,
       group |-> "maxigauge"],
      [raw |-> <<"m", "a", "x", "i", "g", "a", "u", "g", "e", "_", "c", "h", "4">>,
       metric_name |-> <<"m", "a", "x", "i", "g", "a", "u", "g", "e", "_", "c", "h", "4", "_", "p", "r", "e", "s", "s", "u", "r", "e", "_", "m", "b", "a", "r">>,
       description |-> "Maxigauge CH4 pressure [maxigauge file] (maxigauge_ch4)",
       unit_suffix |-> <<"_", "p", "r", "e", "s", "s", "u", "r", "e", "_", "m", "b", "a", "r">>,
       group |-> "maxigauge"],
      [raw |-> <<"m", "a", "x", "i", "g", "a", "u", "g", "e", "_", "c", "h", "5">>,
       metric_name |-> <<"m", "a", "x", "i", "g", "a", "u", "g", "e", "_", "c", "h", "5", "_", "p", "r", "e", "s", "s", "u", "r", "e", "_", "m", "b", "a", "r">>,
       description |-> "Maxigauge CH5 pressure [maxigauge file] (maxigauge_ch5)",
       unit_suffix |-> <<"_", "p", "r", "e", "s", "s", "u", "r", "e", "_", "m", "b", "a", "r">>,
       group |-> "maxigauge"],
      [raw |-> <<"m", "a", "x", "i", "g", "a", "u", "g", "e", "_", "c", "h", "6">>,
       metric_name |-> <<"m", "a", "x", "i", "g", "a", "u", "g", "e", "_", "c", "h", "6", "_", "p", "r", "e", "s", "s", "u", "r", "e", "_", "m", "b", "a", "r">>,
       description |-> "Maxigauge CH6 pressure [maxigauge file] (maxigauge_ch6)",
       unit_suffix |-> <<"_", "p", "r", "e", "s", "s", "u", "r", "e", "_", "m", "b", "a", "r">>,
       group |-> "maxigauge"]
    >>

RawKeys == {METRIC_METADATA[i].raw : i \in 1..Len(METRIC_METADATA)}
MetricNames ==
    {METRIC_METADATA[i].metric_name : i \in 1..Len(METRIC_METADATA)}

\* METRIC_METADATA.get(raw_key): the index of the entry, 0 for None
MetadataGet(key) ==
    IF key \in RawKeys
    THEN CHOOSE i \in 1..Len(METRIC_METADATA) : METRIC_METADATA[i].raw = key
    ELSE 0

\* _BY_METRIC_NAME.get(key): the entries have distinct metric names
ByMetricNameGet(key) ==
    IF key \in MetricNames
    THEN CHOOSE i \in 1..Len(METRIC_METADATA) :
            METRIC_METADATA[i].metric_name = key
    ELSE 0

\* _lookup(key): METRIC_METADATA.get(key) or _BY_METRIC_NAME.get(key)
Lookup(key) ==
    IF MetadataGet(key) # 0 THEN MetadataGet(key) ELSE ByMetricNameGet(key)

get_metric_name_for_raw_key(raw_key) ==
    IF MetadataGet(raw_key) # 0
    THEN METRIC_METADATA[MetadataGet(raw_key)].metric_name
    ELSE raw_key

\* A description is <<text, key>>: the catalogue text with no key, or the
\* fallback f"TODO: unknown metric [unknown source] ({key})" with its key.
get_description(key) ==
    IF Lookup(key) # 0
    THEN <<METRIC_METADATA[Lookup(key)].description, <<>>>>
    ELSE <<"TODO: unknown metric [unknown source] ({key})", key>>

get_unit_suffix(key) ==
    IF Lookup(key) # 0 THEN METRIC_METADATA[Lookup(key)].unit_suffix ELSE <<>>

get_group(key) ==
    IF Lookup(key) # 0 THEN METRIC_METADATA[Lookup(key)].group ELSE "unknown"

----------------------------------------------------------------------------
(* push_metrics.py: the parsers                                            *)

\* An exception of the callee passes through the caller.
Propagate(r, none) == [ok |-> FALSE, val |-> none, exc |-> r.exc]

\* (variant: a key that is already present keeps its first value)
RECURSIVE StatusLoop_FirstWins(_, _, _)
StatusLoop_FirstWins(parts, i, values) ==
    IF i > Len(parts) THEN Return(values)
    ELSE IF parts[i] = <<>>
    THEN Raise("ValueError", "Missing idname in status line", EmptyDict)
    ELSE IF ~float(parts[i + 1]).ok
    THEN Raise("ValueError", "Invalid numeric value in status line", EmptyDict)
    ELSE StatusLoop_FirstWins(parts, i + 2,
            IF parts[i] \in Keys(values) THEN values
            ELSE DictSet(values, parts[i], float(parts[i + 1]).val))

\* (variant: a pair with an empty key is skipped)
RECURSIVE StatusLoop_SkipsEmptyKey(_, _, _)
StatusLoop_SkipsEmptyKey(parts, i, values) ==
    IF i > Len(parts) THEN Return(values)
    ELSE IF parts[i] = <<>>
    THEN StatusLoop_SkipsEmptyKey(parts, i + 2, values)
    ELSE IF ~float(parts[i + 1]).ok
    THEN Raise("ValueError", "Invalid numeric value in status line", EmptyDict)
    ELSE StatusLoop_SkipsEmptyKey(parts, i + 2,
            DictSet(values, parts[i], float(parts[i + 1]).val))

\* the loop of parse_status_line, from index i (1-based) of parts
RECURSIVE StatusLoop(_, _, _)
StatusLoop(parts, i, values) ==
    IF i > Len(parts) THEN Return(values)
    ELSE IF parts[i] = <<>>
    THEN Raise("ValueError", "Missing idname in status line", EmptyDict)
    ELSE IF ~float(parts[i + 1]).ok
    THEN Raise("ValueError", "Invalid numeric value in status line", EmptyDict)
    ELSE StatusLoop(parts, i + 2,
                    DictSet(values, parts[i], float(parts[i + 1]).val))

parse_status_line(line) ==
    LET parts == StripAll(Split(line, ",")) IN
    IF Len(parts) < 4 \/ (Len(parts) - 2) % 2 # 0
    THEN Raise("ValueError", "Status line has invalid format", EmptyDict)
    ELSE StatusLoop(parts, 3, EmptyDict)

\* The name pattern of the channel files,
\*   ^CH(\d+)\s+(T|R)\s+\d{2}-\d{2}-\d{2}\.log$  with re.IGNORECASE:
\* the match of a file name, with groups 1 and 2.
RECURSIVE SpaceRun(_, _)
SpaceRun(s, i) ==
    IF i <= Len(s) /\ s[i] \in Whitespace THEN SpaceRun(s, i + 1) ELSE i

NoMatch == [matched |-> FALSE, ch_num |-> <<>>, ch_type |-> ""]

CH_FILE_RE_match(s) ==
    LET n == Len(s)
        d == DigitRun(s, 3)
        w == SpaceRun(s, d)
        v == SpaceRun(s, w + 1)
        tail == Lower(SubSeq(s, v, v + 11))
        dateAndExt ==
            /\ Len(tail) = 12
            /\ \A k \in {1, 2, 4, 5, 7, 8} : IsDigit(tail[k])
            /\ tail[3] = "-" /\ tail[6] = "-"
            /\ SubSeq(tail, 9, 12) = <<".", "l", "o", "g">>
    IN  IF /\ n >= 2 /\ LowerChar(s[1]) = "c" /\ LowerChar(s[2]) = "h"
           /\ d > 3
           /\ w > d
           /\ w <= n /\ LowerChar(s[w]) \in {"t", "r"}
           /\ v > w + 1
           \* $ matches at the end, or just before a final line break
           /\ \/ n = v + 11
              \/ n = v + 12 /\ s[n] = "\n"
           /\ dateAndExt
        THEN [matched |-> TRUE, ch_num |-> SubSeq(s, 3, d - 1),
              ch_type |-> UpperChar(s[w])]
        ELSE NoMatch

\* (variant: the value is taken from the last field of the record)
ParseSingleValue_LastField(f, tooShort) ==
    LET last == read_last_line(f) IN
    IF ~last.ok THEN Propagate(last, NoFloat)
    ELSE LET parts == Split(last.val, ",") IN
         IF Len(parts) < 3 THEN Raise("ValueError", tooShort, NoFloat)
         ELSE float(Strip(parts[Len(parts)]))

\* parse_channel_file and parse_flowmeter_file differ in the message only
ParseSingleValue(f, tooShort) ==
    LET last == read_last_line(f) IN
    IF ~last.ok THEN Propagate(last, NoFloat)
    ELSE LET parts == Split(last.val, ",") IN
         IF Len(parts) < 3 THEN Raise("ValueError", tooShort, NoFloat)
         ELSE float(Strip(parts[3]))

parse_channel_file(f) == ParseSingleValue(f, "CH file line too short")

parse_flowmeter_file(f) == ParseSingleValue(f, "Flowmeter line too short")

\* while i + 1 < len(parts), with i counted from 0: i is 1-based here
RECURSIVE HeatersLoop(_, _, _)
HeatersLoop(parts, i, result) ==
    IF ~(i + 1 <= Len(parts)) THEN Return(result)
    ELSE IF ~float(parts[i + 1]).ok
    THEN Propagate(float(parts[i + 1]), EmptyDict)
    ELSE HeatersLoop(parts, i + 2,
            DictSet(result, <<"h", "e", "a", "t", "e", "r", "_">> \o parts[i] \o <<"_", "w", "a", "t", "t", "s">>,
                    float(parts[i + 1]).val))

parse_heaters_file(f) ==
    LET last == read_last_line(f) IN
    IF ~last.ok THEN Propagate(last, EmptyDict)
    ELSE LET r == HeatersLoop(StripAll(Split(last.val, ",")), 3, EmptyDict) IN
         IF r.ok /\ r.val = EmptyDict
         THEN Raise("ValueError", "No heater pairs found in line", EmptyDict)
         ELSE r

\* [a-zA-Z0-9_]
WordChars == UpperChars \cup LowerChars \cup Digits \cup {"_"}
IsWordChar(c) == c \in WordChars

RECURSIVE ValvesLoop(_, _, _)
ValvesLoop(parts, i, result) ==
    IF ~(i + 1 <= Len(parts)) THEN Return(result)
    ELSE IF ~float(parts[i + 1]).ok
    THEN Propagate(float(parts[i + 1]), EmptyDict)
    ELSE ValvesLoop(parts, i + 2,
            DictSet(result, <<"v", "a", "l", "v", "e", "_">> \o SubClass(IsWordChar, parts[i]),
                    float(parts[i + 1]).val))

parse_channels_file(f) ==
    LET last == read_last_line(f) IN
    IF ~last.ok THEN Propagate(last, EmptyDict)
    ELSE LET r == ValvesLoop(StripAll(Split(last.val, ",")), 4, EmptyDict) IN
         IF r.ok /\ r.val = EmptyDict
         THEN Raise("ValueError", "No valve pairs found in line", EmptyDict)
         ELSE r

\* (variant: the channel label is used as written)
RECURSIVE MaxigaugeLoop_NoLower(_, _, _)
MaxigaugeLoop_NoLower(parts, b, result) ==
    IF ~(b + 5 <= Len(parts)) THEN Return(result)
    ELSE IF ~float(parts[b + 3]).ok
    THEN Propagate(float(parts[b + 3]), EmptyDict)
    ELSE MaxigaugeLoop_NoLower(parts, b + 6,
            DictSet(result,
                    <<"m", "a", "x", "i", "g", "a", "u", "g", "e", "_">> \o parts[b]
                        \o <<"_", "p", "r", "e", "s", "s", "u", "r", "e", "_", "m", "b", "a", "r">>,
                    float(parts[b + 3]).val))

\* while block_start + 5 < len(parts), block_start counted from 0
RECURSIVE MaxigaugeLoop(_, _, _)
MaxigaugeLoop(parts, b, result) ==
    IF ~(b + 5 <= Len(parts)) THEN Return(result)
    ELSE IF ~float(parts[b + 3]).ok
    THEN Propagate(float(parts[b + 3]), EmptyDict)
    ELSE MaxigaugeLoop(parts, b + 6,
            DictSet(result,
                    <<"m", "a", "x", "i", "g", "a", "u", "g", "e", "_">> \o Lower(parts[b])
                        \o <<"_", "p", "r", "e", "s", "s", "u", "r", "e", "_", "m", "b", "a", "r">>,
                    float(parts[b + 3]).val))

parse_maxigauge_file(f) ==
    LET last == read_last_line(f) IN
    IF ~last.ok THEN Propagate(last, EmptyDict)
    ELSE LET r == MaxigaugeLoop(StripAll(Split(last.val, ",")), 3, EmptyDict)
         IN  IF r.ok /\ r.val = EmptyDict
             THEN Raise("ValueError", "No maxigauge channels parsed from line",
                        EmptyDict)
             ELSE r

----------------------------------------------------------------------------
(* push_metrics.py: the Prometheus push                                    *)

\* [a-zA-Z0-9_:], the complement of _METRIC_NAME_RE
IsMetricNameChar(c) == IsWordChar(c) \/ c = ":"

_safe_metric_name(raw) ==
    LET name == SubClass(IsMetricNameChar, raw) IN
    IF name # <<>> /\ IsDigit(name[1]) THEN <<"m", "_">> \o name ELSE name

HeartbeatName == <<"l", "a", "s", "t", "_", "p", "u", "s", "h", "_", "t", "i", "m", "e", "s", "t", "a", "m", "p", "_", "s", "e", "c", "o", "n", "d", "s">>

RegistryNames(registry) == {registry[i].name : i \in 1..Len(registry)}

\* Gauge(name, ..., registry=registry): CollectorRegistry.register refuses a
\* name that is already registered, and Gauge an empty name.
GaugeRefused(name, registry) ==
    name = <<>> \/ name \in RegistryNames(registry)

\* the loop of push_metrics over all_metrics.items(), from item i
RECURSIVE RegisterLoop(_, _, _)
RegisterLoop(items, i, registry) ==
    IF i > Len(items) THEN Return(registry)
    ELSE LET metric_key == items[i][1]
             safe_name == _safe_metric_name(metric_key)
         IN  IF GaugeRefused(safe_name, registry)
             THEN Raise("ValueError",
                        "Duplicated timeseries in CollectorRegistry", registry)
             ELSE RegisterLoop(items, i + 1,
                     Append(registry,
                            [name |-> safe_name,
                             description |-> get_description(metric_key),
                             subsystem |-> get_group(metric_key),
                             value |-> items[i][2]]))

\* (variant: the registry holds the metric gauges only)
BuildRegistry_NoHeartbeat(metrics, now) == RegisterLoop(metrics, 1, <<>>)

\* push_metrics up to the call of push_to_gateway: the registry with one
\* gauge per metric and the heartbeat gauge set to the current time.
BuildRegistry(metrics, now) ==
    LET r == RegisterLoop(metrics, 1, <<>>) IN
    IF ~r.ok THEN r
    ELSE IF GaugeRefused(HeartbeatName, r.val)
    THEN Raise("ValueError", "Duplicated timeseries in CollectorRegistry",
               r.val)
    ELSE Return(Append(r.val,
                  [name |-> HeartbeatName,
                   description |->
                      <<"Unix epoch of the most recent successful push", <<>>>>,
                   subsystem |-> "",
                   value |-> [m |-> now, e |-> 0]]))

----------------------------------------------------------------------------
(* One run of push_metrics.main                                            *)

\* Where the scripts keep their own files, and where the data lives.
SCRIPT_DIR == "script_dir"
LOGS_DIR == "logs_dir"

\* LOG_FILE = SCRIPT_DIR / "push_metrics.log"
LOG_FILE == [root |-> SCRIPT_DIR, path |-> "push_metrics.log"]

FsOp(root, path, op) == [root |-> root, path |-> path, op |-> op]

\* every log.info / log.error goes through the FileHandler on LOG_FILE
LogWrite == FsOp(LOG_FILE.root, LOG_FILE.path, "write")

\* (variant: the log file is opened for update, "r+")
ReadLastLineOp_Update(path) == FsOp(LOGS_DIR, path, "open_rw")

\* open(file_path, "r", encoding="utf-8") in read_last_line
ReadLastLineOp(path) == FsOp(LOGS_DIR, path, "open_r")

\* log.error("<what> (%s): %s", name, exc)
LogError(what, name, exc) == [what |-> what, file |-> name, exc |-> exc]

PerFileErrors ==
    {"Status file error", "Channel file error", "Flowmeter file error",
     "Heaters file error", "Channels file error", "Maxigauge file error"}

date_str == <<"2", "6", "-", "0", "2", "-", "1", "9">>

status_name == <<"S", "t", "a", "t", "u", "s", "_">> \o date_str \o <<".", "l", "o", "g">>
flowmeter_name == <<"F", "l", "o", "w", "m", "e", "t", "e", "r", " ">> \o date_str \o <<".", "l", "o", "g">>
heaters_name == <<"H", "e", "a", "t", "e", "r", "s", " ">> \o date_str \o <<".", "l", "o", "g">>
channels_name == <<"C", "h", "a", "n", "n", "e", "l", "s", " ">> \o date_str \o <<".", "l", "o", "g">>
maxigauge_name == <<"m", "a", "x", "i", "g", "a", "u", "g", "e", " ">> \o date_str \o <<".", "l", "o", "g">>

\* ---- what the files of the day can hold when they are read ----
MaxDirEntries == 2

EmptyContent == <<>>

StatusOk == <<"d", ",", "t", ",", "c", "h", "1", "_", "t", ",", "1", ".", "5", ",", "x", ",", "2", "\n">>
StatusMalformed == <<"d", ",", "t", ",", "c", "p", "a", "h", "p", "\n">>
ChannelOk == <<"d", ",", "t", ",", "3", "\n">>
ChannelMalformed == <<"d", ",", "t", "\n">>
FlowmeterOk == <<"d", ",", "t", ",", "0", ".", "5", "\n">>
FlowmeterMalformed == <<"d", ",", "t", ",", "x", "\n">>
HeatersOk == <<"d", ",", "t", ",", "0", ",", "0", ".", "0", ",", "1", ",", "0", ".", "0", "0", "8", "\n">>
HeatersMalformed == <<"d", ",", "t", ",", "0", ",", "x", "\n">>
ValvesOk == <<"d", ",", "t", ",", "0", ",", "v", "1", ",", "1", ",", "V", "-", "2", ",", "0", "\n">>
ValvesMalformed == <<"d", ",", "t", ",", "0", "\n">>
MaxigaugeOk == <<"d", ",", "t", ",", "C", "H", "1", ",", "A", ",", "O", "K", ",", "2", ".", "2", "7", "E", "-", "6", ",", "0", ",", "0", "\n">>
MaxigaugeMalformed == <<"d", ",", "t", ",", "C", "H", "1", ",", "A", "\n">>

\* What a log file can be when it is read, by name.
FileStates(ok, malformed) ==
    [s \in {"missing", "denied", "empty", "malformed", "ok"} |->
        CASE s = "missing" -> Missing
          [] s = "denied" -> Denied
          [] s = "empty" -> File(EmptyContent)
          [] s = "malformed" -> File(malformed)
          [] s = "ok" -> File(ok)]

StatusFiles ==
    FileStates(StatusOk, StatusMalformed)
        @@ ("ioerror" :> IoError)
        @@ ("undecodable" :> File(<<InvalidByte, "\n">> \o StatusOk))
ChannelFiles == FileStates(ChannelOk, ChannelMalformed)

\* A refused open() is met on the status file and on the channel files; the
\* later files are missing, empty, malformed or well-formed.
Restrict(f, S) == [s \in S |-> f[s]]
LaterStates == {"missing", "empty", "malformed", "ok"}
FlowmeterFiles ==
    Restrict(FileStates(FlowmeterOk, FlowmeterMalformed), LaterStates)
HeatersFiles == Restrict(FileStates(HeatersOk, HeatersMalformed), LaterStates)
ValvesFiles == Restrict(FileStates(ValvesOk, ValvesMalformed), LaterStates)
MaxigaugeFiles ==
    Restrict(FileStates(MaxigaugeOk, MaxigaugeMalformed), LaterStates)

StatusStates == DOMAIN StatusFiles
ChannelStates == DOMAIN ChannelFiles
FlowmeterStates == DOMAIN FlowmeterFiles
HeatersStates == DOMAIN HeatersFiles
ValvesStates == DOMAIN ValvesFiles
MaxigaugeStates == DOMAIN MaxigaugeFiles

\* names that os.listdir(date_dir) can return
DirEntries ==
    { <<"C", "H", "1", " ", "T", " ", "2", "6", "-", "0", "2", "-", "1", "9", ".", "l", "o", "g">>,
      <<"c", "h", "6", " ", "t", " ", "2", "6", "-", "0", "2", "-", "1", "9", ".", "l", "o", "g">>,
      <<"C", "H", "2", " ", "R", " ", "2", "6", "-", "0", "2", "-", "1", "9", ".", "t", "x", "t">> }

Listings == {S \in SUBSET DirEntries : Cardinality(S) <= MaxDirEntries}

NotReturned == [returned |-> FALSE, value |-> EmptyDict]
\* called: push_metrics was entered with arg; sent: it reached
\* push_to_gateway with registry; delivered: push_to_gateway returned
NotPushed ==
    [called |-> FALSE, arg |-> EmptyDict, sent |-> FALSE, registry |-> <<>>,
     delivered |-> FALSE]

Seen(name, kind, st) == [name |-> name, kind |-> kind, st |-> st]

\* main returns code after logging what (an empty what logs nothing)
Exit(code, what, exc) ==
    /\ pc' = "done"
    /\ exit_code' = code
    /\ errors' = IF what = "" THEN errors
                 ELSE Append(errors, LogError(what, <<>>, exc))

\* collectall's report: its blocks, and what became of it
NoReport == [built |-> FALSE, blocks |-> <<>>, saved |-> FALSE, posted |-> FALSE]

RunInit ==
    /\ pc \in {"config", "ca_config"}
    /\ all_metrics = EmptyDict
    /\ errors = <<>>
    /\ seen = <<>>
    /\ all_filenames = <<>>
    /\ idx = 0
    /\ collected = NotReturned
    /\ exit_code = -1
    /\ pushed = NotPushed
    \* logging.FileHandler(LOG_FILE) opens the log file when push_metrics
    \* is loaded; collectall keeps no log file
    /\ fsOps = IF pc = "config"
               THEN {FsOp(LOG_FILE.root, LOG_FILE.path, "open_a")} ELSE {}
    /\ clock = 0
    /\ report = NoReport

Tick == clock' = clock + 1

\* main, phase 1: load_config(SCRIPT_DIR / ".env")
LoadConfig ==
    /\ pc = "config"
    /\ \E cfg \in {"ok", "no_env_file", "missing_var"} :
          /\ fsOps' = fsOps
                \cup {FsOp(SCRIPT_DIR, ".env", "stat")}
                \cup (IF cfg = "no_env_file" THEN {}
                      ELSE {FsOp(SCRIPT_DIR, ".env", "open_r")})
                \cup (IF cfg = "ok" THEN {} ELSE {LogWrite})
          /\ IF cfg = "ok"
             THEN /\ pc' = "collect"
                  /\ UNCHANGED <<exit_code, errors>>
             ELSE Exit(1, "Configuration error",
                       IF cfg = "no_env_file"
                       THEN Exc("FileNotFoundError", ".env file not found at")
                       ELSE Exc("ValueError", "is missing or empty in .env"))
    /\ Tick
    /\ UNCHANGED <<all_metrics, seen, all_filenames, idx, collected, pushed,
                   report,
                   readerVars, fnVars>>

\* (variant: only existence is tested)
DateFolderFound_ExistsOnly(d) == d # "missing"

\* not (not date_dir.exists() or not date_dir.is_dir()), where d tells what
\* the path <logs_dir>/<YY-MM-DD> is: "missing", a "file" or a "dir"
DateFolderFound(d) == d # "missing" /\ d = "dir"

\* collect_all_metrics, lines 243-249: the dated folder must be a directory;
\* FileNotFoundError leaves collect_all_metrics and main returns 1.
CheckDateFolder ==
    /\ pc = "collect"
    /\ \E d \in {"missing", "file", "dir"} :
          /\ seen' = Append(seen, Seen(date_str, "date_dir", d))
          /\ IF DateFolderFound(d)
             THEN /\ pc' = "status"
                  /\ fsOps' = fsOps \cup {FsOp(LOGS_DIR, "date_dir", "stat")}
                  /\ UNCHANGED <<exit_code, errors>>
             ELSE /\ Exit(1, "Data collection error",
                          Exc("FileNotFoundError",
                              "Today's date folder not found"))
                  /\ fsOps' = fsOps \cup {FsOp(LOGS_DIR, "date_dir", "stat"),
                                          LogWrite}
    /\ all_metrics' = EmptyDict
    /\ Tick
    /\ UNCHANGED <<all_filenames, idx, collected, pushed, report,
                   readerVars, fnVars>>

\* for raw_key, value in raw_status.items():
\*     all_metrics[get_metric_name_for_raw_key(raw_key)] = value
RECURSIVE InsertStatus(_, _)
InsertStatus(metrics, raw_status) ==
    IF raw_status = <<>> THEN metrics
    ELSE InsertStatus(
            DictSet(metrics, get_metric_name_for_raw_key(raw_status[1][1]),
                    raw_status[1][2]),
            Tail(raw_status))

\* (variant: a failing file throws away what was collected before it)
TryFile_ClearsOnError(name, kind, what, st, r, merged) ==
    /\ seen' = Append(seen, Seen(name, kind, st))
    /\ all_metrics' = IF r.ok THEN merged ELSE EmptyDict
    /\ errors' = IF r.ok THEN errors
                 ELSE Append(errors, LogError(what, name, r.exc))
    /\ fsOps' = fsOps \cup {ReadLastLineOp(kind), LogWrite}

\* (variant: a failing file is skipped without a log record)
TryFile_Silent(name, kind, what, st, r, merged) ==
    /\ seen' = Append(seen, Seen(name, kind, st))
    /\ all_metrics' = IF r.ok THEN merged ELSE all_metrics
    /\ errors' = errors
    /\ fsOps' = fsOps \cup {ReadLastLineOp(kind), LogWrite}

\* One "try: ... except Exception as exc: log.error(...)" block of
\* collect_all_metrics: the parsed result r of the file st is merged into
\* all_metrics, or its exception is logged and all_metrics is left alone.
TryFile(name, kind, what, st, r, merged) ==
    /\ seen' = Append(seen, Seen(name, kind, st))
    /\ all_metrics' = IF r.ok THEN merged ELSE all_metrics
    /\ errors' = IF r.ok THEN errors
                 ELSE Append(errors, LogError(what, name, r.exc))
    /\ fsOps' = fsOps \cup {ReadLastLineOp(kind), LogWrite}

\* parse_status_line(read_last_line(status_path))
ParseStatusFile(f) ==
    LET last == read_last_line(f) IN
    IF last.ok THEN parse_status_line(last.val) ELSE Propagate(last, EmptyDict)

\* The parsers on the files that the run can meet, evaluated once.
StatusParsed == [st \in StatusStates |-> ParseStatusFile(StatusFiles[st])]
ChannelParsed == [st \in ChannelStates |-> parse_channel_file(ChannelFiles[st])]
FlowmeterParsed ==
    [st \in FlowmeterStates |-> parse_flowmeter_file(FlowmeterFiles[st])]
HeatersParsed == [st \in HeatersStates |-> parse_heaters_file(HeatersFiles[st])]
ValvesParsed == [st \in ValvesStates |-> parse_channels_file(ValvesFiles[st])]
MaxigaugeParsed ==
    [st \in MaxigaugeStates |-> parse_maxigauge_file(MaxigaugeFiles[st])]

\* collect_all_metrics, lines 251-260
CollectStatus ==
    /\ pc = "status"
    /\ \E st \in StatusStates :
          LET raw_status == StatusParsed[st]
          IN  TryFile(status_name, "status", "Status file error", st,
                      raw_status, InsertStatus(all_metrics, raw_status.val))
    /\ pc' = "listdir"
    /\ Tick
    /\ UNCHANGED <<all_filenames, idx, collected, exit_code, pushed,
                   report,
                   readerVars, fnVars>>

\* collect_all_metrics, lines 263-269: all_filenames holds
\* sorted(all_filenames), the order in which the loop visits the names
ListDateFolder ==
    /\ pc = "listdir"
    /\ \/ \E S \in Listings :
             /\ all_filenames' = Sorted(S)
             /\ pc' = IF S = {} THEN "flowmeter" ELSE "channel"
             /\ fsOps' = fsOps \cup {FsOp(LOGS_DIR, "date_dir", "listdir")}
             /\ UNCHANGED errors
       \/ /\ all_filenames' = <<>>
          /\ pc' = "flowmeter"
          /\ errors' = Append(errors,
                LogError("Cannot list date folder", date_str,
                         Exc("PermissionError", "[Errno 13] Permission denied")))
          /\ fsOps' = fsOps \cup {FsOp(LOGS_DIR, "date_dir", "listdir"),
                                  LogWrite}
    /\ idx' = 1
    /\ Tick
    /\ UNCHANGED <<all_metrics, seen, collected, exit_code, pushed,
                   report,
                   readerVars, fnVars>>

ChannelMetricName(m) ==
    <<"c", "h">> \o m.ch_num
        \o (IF m.ch_type = "T" THEN <<"_", "t", "_", "k", "e", "l", "v", "i", "n">> ELSE <<"_", "r", "_", "o", "h", "m", "s">>)

\* collect_all_metrics, lines 269-292: one pass of the loop over the names
CollectChannel ==
    /\ pc = "channel"
    /\ idx <= Len(all_filenames)
    /\ LET filename == all_filenames[idx]
           m == CH_FILE_RE_match(filename)
       IN  IF ~m.matched
           THEN UNCHANGED <<all_metrics, errors, seen, fsOps>>
           ELSE \E st \in ChannelStates :
                   LET v == ChannelParsed[st] IN
                   TryFile(filename, "channel", "Channel file error", st, v,
                           DictSet(all_metrics, ChannelMetricName(m), v.val))
    /\ idx' = idx + 1
    /\ pc' = IF idx = Len(all_filenames) THEN "flowmeter" ELSE "channel"
    /\ Tick
    /\ UNCHANGED <<all_filenames, collected, exit_code, pushed,
                   report,
                   readerVars, fnVars>>

\* collect_all_metrics, lines 294-300
CollectFlowmeter ==
    /\ pc = "flowmeter"
    /\ \E st \in FlowmeterStates :
          LET v == FlowmeterParsed[st] IN
          TryFile(flowmeter_name, "flowmeter", "Flowmeter file error", st, v,
                  DictSet(all_metrics, <<"f", "l", "o", "w", "m", "e", "t", "e", "r", "_", "m", "m", "o", "l", "_", "p", "e", "r", "_", "s">>, v.val))
    /\ pc' = "heaters"
    /\ Tick
    /\ UNCHANGED <<all_filenames, idx, collected, exit_code, pushed,
                   report,
                   readerVars, fnVars>>

\* collect_all_metrics, lines 302-309
CollectHeaters ==
    /\ pc = "heaters"
    /\ \E st \in HeatersStates :
          LET heater_metrics == HeatersParsed[st] IN
          TryFile(heaters_name, "heaters", "Heaters file error", st,
                  heater_metrics, DictUpdate(all_metrics, heater_metrics.val))
    /\ pc' = "valves"
    /\ Tick
    /\ UNCHANGED <<all_filenames, idx, collected, exit_code, pushed,
                   report,
                   readerVars, fnVars>>

\* collect_all_metrics, lines 311-318
CollectValves ==
    /\ pc = "valves"
    /\ \E st \in ValvesStates :
          LET valve_metrics == ValvesParsed[st] IN
          TryFile(channels_name, "channels", "Channels file error", st,
                  valve_metrics, DictUpdate(all_metrics, valve_metrics.val))
    /\ pc' = "maxigauge"
    /\ Tick
    /\ UNCHANGED <<all_filenames, idx, collected, exit_code, pushed,
                   report,
                   readerVars, fnVars>>

\* collect_all_metrics, lines 320-329: the last file, and the return
CollectMaxigauge ==
    /\ pc = "maxigauge"
    /\ \E st \in MaxigaugeStates :
          LET gauge_metrics == MaxigaugeParsed[st] IN
          TryFile(maxigauge_name, "maxigauge", "Maxigauge file error", st,
                  gauge_metrics, DictUpdate(all_metrics, gauge_metrics.val))
    /\ collected' = [returned |-> TRUE, value |-> all_metrics']
    /\ pc' = "returned"
    /\ Tick
    /\ UNCHANGED <<all_filenames, idx, exit_code, pushed, report,
                   readerVars, fnVars>>

\* (variant: no mapping counts as empty)
IsEmptyDict_Never(d) == FALSE

\* (variant: a mapping of one entry counts as empty too)
IsEmptyDict_AtMostOne(d) == Len(d) <= 1

\* not all_metrics
IsEmptyDict(d) == Len(d) = 0

\* main, lines 408-413: an empty mapping ends the run before the push
MainCheckEmpty ==
    /\ pc = "returned"
    /\ IF IsEmptyDict(collected.value)
       THEN Exit(1, "No metrics collected -- nothing to push", NoExc)
       ELSE /\ pc' = "push"
            /\ UNCHANGED <<exit_code, errors>>
    /\ fsOps' = fsOps \cup {LogWrite}
    /\ Tick
    /\ UNCHANGED <<all_metrics, seen, all_filenames, idx, collected, pushed,
                   report,
                   readerVars, fnVars>>

\* main, lines 415-432: push_metrics(all_metrics, ...) and what main returns
PushMetrics ==
    /\ pc = "push"
    /\ \E registry \in {BuildRegistry(collected.value, clock)} :
          IF ~registry.ok
          THEN /\ pushed' = [called |-> TRUE, arg |-> collected.value,
                             sent |-> FALSE, registry |-> <<>>,
                             delivered |-> FALSE]
               /\ Exit(1, "Push failed", registry.exc)
          ELSE \E gateway \in {"ok", "unreachable"} :
                  /\ pushed' = [called |-> TRUE, arg |-> collected.value,
                                sent |-> TRUE, registry |-> registry.val,
                                delivered |-> gateway = "ok"]
                  /\ IF gateway = "ok"
                     THEN Exit(0, "", NoExc)
                     ELSE Exit(1, "Push failed",
                               Exc("URLError", "urlopen error"))
    /\ fsOps' = fsOps \cup {LogWrite}
    /\ Tick
    /\ UNCHANGED <<all_metrics, seen, all_filenames, idx, collected,
                   report,
                   readerVars, fnVars>>

----------------------------------------------------------------------------
(* One run of collectall.main                                              *)

\* MAX_FILE_SIZE_BYTES = 50 * 1024 * 1024
MAX_FILE_SIZE_BYTES == 50 * 1024 * 1024

NulByte == "0x00"

\* is_likely_binary: open(filepath, "rb"), read 512 bytes, look for a null
\* byte; a file that cannot be opened counts as binary
is_likely_binary(f) ==
    IF OpenForRead(f) # NoExc THEN TRUE
    ELSE \E i \in 1..Len(f.bytes) : i <= 512 /\ f.bytes[i] = NulByte

\* for line in f: stripped = line.strip(); if not stripped: continue;
\* if not first_line: first_line = stripped; last_line = stripped
RECURSIVE FirstLastLoop(_, _, _)
FirstLastLoop(lines, first_line, last_line_) ==
    IF lines = <<>> THEN <<first_line, last_line_>>
    ELSE LET stripped == Strip(Head(lines)) IN
         IF stripped = <<>>
         THEN FirstLastLoop(Tail(lines), first_line, last_line_)
         ELSE FirstLastLoop(Tail(lines),
                            IF first_line = <<>> THEN stripped ELSE first_line,
                            stripped)

\* collectall.read_first_and_last_line: the file is decoded with
\* errors="replace"; every failure becomes a marker text, never an exception
read_first_and_last_line(f) ==
    LET exc == OpenForRead(f) IN
    IF exc # NoExc
    THEN IF exc.type = "PermissionError"
         THEN <<<<"[", "P", "E", "R", "M", "I", "S", "S", "I", "O", "N", " ", "D", "E", "N", "I", "E", "D", " ", "-", "-", " ", "s", "k", "i", "p", "p", "e", "d", "]">>, <<>>>>
         ELSE <<<<"[", "O", "S", " ", "E", "R", "R", "O", "R", ":", " ">>, <<>>>>
    ELSE LET fl == FirstLastLoop(
                      SplitLines(TranslateNewlines(DecodeReplace(f.bytes))),
                      <<>>, <<>>)
         IN  IF fl[1] = <<>> THEN <<<<"[", "E", "M", "P", "T", "Y", " ", "F", "I", "L", "E", "]">>, <<>>>> ELSE fl

\* What an entry of the dated folder can be when collect_all_files meets it:
\* is_file() -> stat() -> the first 512 bytes -> the lines.
CaText == <<"a", "\n", InvalidByte, "b", "\n", "\n">>
CaEntry(is_file, stat, size, peek, read) ==
    [is_file |-> is_file, stat |-> stat, size |-> size, peek |-> peek,
     read |-> read]
CaEntries ==
    [subdir |-> CaEntry(FALSE, "ok", 0, Missing, Missing),
     vanished |-> CaEntry(TRUE, "error", 0, Missing, Missing),
     too_large |-> CaEntry(TRUE, "ok", MAX_FILE_SIZE_BYTES + 1, Missing, Missing),
     zero |-> CaEntry(TRUE, "ok", 0, File(<<>>), File(<<>>)),
     binary |-> CaEntry(TRUE, "ok", 2, File(<<"a", NulByte>>),
                        File(<<"a", NulByte>>)),
     locked |-> CaEntry(TRUE, "ok", 2, Denied, Denied),
     denied |-> CaEntry(TRUE, "ok", 2, File(<<"a", "\n">>), Denied),
     ioerror |-> CaEntry(TRUE, "ok", 2, File(<<"a", "\n">>), IoError),
     blank |-> CaEntry(TRUE, "ok", 2, File(<<" ", "\n">>), File(<<" ", "\n">>)),
     one_line |-> CaEntry(TRUE, "ok", 2, File(<<"a", "\n">>),
                          File(<<"a", "\n">>)),
     text |-> CaEntry(TRUE, "ok", Len(CaText), File(CaText), File(CaText))]

\* one block of the report: the file, what was done with it, the two lines
ReportEntry(name, note, first, last) ==
    [file |-> name, note |-> note, first |-> first, last |-> last]

\* collect_all_files, lines 117-169: the block of the report for entry e
ReportOn(name, e) ==
    IF ~e.is_file THEN ReportEntry(name, "SKIP (not a file)", <<>>, <<>>)
    ELSE IF e.stat = "error"
    THEN ReportEntry(name, "ERROR: Cannot stat file", <<>>, <<>>)
    ELSE IF e.size > MAX_FILE_SIZE_BYTES
    THEN ReportEntry(name, "SKIPPED: File exceeds limit", <<>>, <<>>)
    ELSE IF e.size = 0
    THEN ReportEntry(name, "SKIPPED: Empty file", <<>>, <<>>)
    ELSE IF is_likely_binary(e.peek)
    THEN ReportEntry(name, "SKIPPED: Appears to be a binary file", <<>>, <<>>)
    ELSE LET fl == read_first_and_last_line(e.read) IN
         ReportEntry(name, "lines", fl[1],
                     IF fl[2] # <<>> /\ fl[2] # fl[1] THEN fl[2]
                     ELSE IF fl[2] = fl[1]
                     THEN <<"(", "s", "a", "m", "e", " ", "a", "s", " ", "f", "i", "r", "s", "t", " ", "-", "-", " ", "s", "i", "n", "g", "l", "e", " ", "l", "i", "n", "e", " ", "f", "i", "l", "e", ")">>
                     ELSE <<"(", "e", "m", "p", "t", "y", ")">>)

\* the file-system calls that collect_all_files makes on entry e
EntryOps(e) ==
    {FsOp(LOGS_DIR, "entry", "stat")}
        \cup (IF e.is_file /\ e.stat = "ok" /\ e.size <= MAX_FILE_SIZE_BYTES
                 /\ e.size # 0
              THEN {FsOp(LOGS_DIR, "entry", "open_rb")} ELSE {})
        \cup (IF e.is_file /\ e.stat = "ok" /\ e.size <= MAX_FILE_SIZE_BYTES
                 /\ e.size # 0 /\ ~is_likely_binary(e.peek)
              THEN {FsOp(LOGS_DIR, "entry", "open_r")} ELSE {})

Reports == [n \in DOMAIN CaEntries |-> [file \in DirEntries |-> ReportOn(file, CaEntries[n])]]
AllEntryOps == [n \in DOMAIN CaEntries |-> EntryOps(CaEntries[n])]

\* main returns code (collectall prints to the console, it keeps no log file)
CaExit(code) ==
    /\ pc' = "ca_done"
    /\ exit_code' = code

\* main, phase 1: the .env file and FRIGE_LOGS_DIR
CaLoadConfig ==
    /\ pc = "ca_config"
    /\ \E cfg \in {"ok", "no_env_file", "missing_var"} :
          /\ fsOps' = fsOps
                \cup {FsOp(SCRIPT_DIR, ".env", "stat")}
                \cup (IF cfg = "no_env_file" THEN {}
                      ELSE {FsOp(SCRIPT_DIR, ".env", "open_r")})
          /\ IF cfg = "ok"
             THEN pc' = "ca_folder" /\ UNCHANGED exit_code
             ELSE CaExit(1)
    /\ Tick
    /\ UNCHANGED <<all_metrics, errors, seen, all_filenames, idx, collected,
                   pushed, report, readerVars, fnVars>>

\* main, phase 2: get_today_folder raises FileNotFoundError or
\* NotADirectoryError
CaFindFolder ==
    /\ pc = "ca_folder"
    /\ \E d \in {"missing", "file", "dir"} :
          IF d = "dir"
          THEN pc' = "ca_list" /\ UNCHANGED exit_code
          ELSE CaExit(1)
    /\ fsOps' = fsOps \cup {FsOp(LOGS_DIR, "date_dir", "stat")}
    /\ Tick
    /\ UNCHANGED <<all_metrics, errors, seen, all_filenames, idx, collected,
                   pushed, report, readerVars, fnVars>>

\* collect_all_files, lines 100-105: files = sorted(os.listdir(date_dir))
CaListFolder ==
    /\ pc = "ca_list"
    /\ \/ \E S \in Listings :
             /\ all_filenames' = Sorted(S)
             /\ pc' = "ca_file"
             /\ UNCHANGED exit_code
       \/ /\ all_filenames' = <<>>
          /\ CaExit(1)
    /\ idx' = 1
    /\ fsOps' = fsOps \cup {FsOp(LOGS_DIR, "date_dir", "listdir")}
    /\ Tick
    /\ UNCHANGED <<all_metrics, errors, seen, collected, pushed, report,
                   readerVars, fnVars>>

\* collect_all_files, lines 117-169: one pass of the loop over the files;
\* past the last file the report is complete and main prints it
CaFile ==
    /\ pc = "ca_file"
    /\ IF idx <= Len(all_filenames)
       THEN \E n \in DOMAIN CaEntries :
               /\ report' = [report EXCEPT
                     !.blocks = Append(@, Reports[n][all_filenames[idx]])]
               /\ fsOps' = fsOps \cup AllEntryOps[n]
               /\ idx' = idx + 1
               /\ pc' = "ca_file"
       ELSE /\ report' = [report EXCEPT !.built = TRUE]
            /\ pc' = "ca_save"
            /\ UNCHANGED <<fsOps, idx>>
    /\ Tick
    /\ UNCHANGED <<all_metrics, errors, seen, all_filenames, collected,
                   exit_code, pushed, readerVars, fnVars>>

\* main, phase 5: the report is written to SCRIPT_DIR/collectall_report.txt;
\* a failure is printed and the run goes on
CaSave ==
    /\ pc = "ca_save"
    /\ \E saved \in BOOLEAN :
          /\ report' = [report EXCEPT !.saved = saved]
          /\ fsOps' = fsOps
                \cup {FsOp(SCRIPT_DIR, "collectall_report.txt", "open_w")}
                \cup (IF saved
                      THEN {FsOp(SCRIPT_DIR, "collectall_report.txt", "write")}
                      ELSE {})
    /\ pc' = "ca_post"
    /\ Tick
    /\ UNCHANGED <<all_metrics, errors, seen, all_filenames, idx, collected,
                   exit_code, pushed, readerVars, fnVars>>

\* main, phase 6: post_to_dpaste(report); a failure is printed; return 0
CaPost ==
    /\ pc = "ca_post"
    /\ \E posted \in BOOLEAN : report' = [report EXCEPT !.posted = posted]
    /\ CaExit(0)
    /\ Tick
    /\ UNCHANGED <<all_metrics, errors, seen, all_filenames, idx, collected,
                   pushed, fsOps, readerVars, fnVars>>

Next ==
    \/ LoadConfig
    \/ CheckDateFolder
    \/ CollectStatus
    \/ ListDateFolder
    \/ CollectChannel
    \/ CollectFlowmeter
    \/ CollectHeaters
    \/ CollectValves
    \/ CollectMaxigauge
    \/ MainCheckEmpty
    \/ PushMetrics
    \/ CaLoadConfig
    \/ CaFindFolder
    \/ CaListFolder
    \/ CaFile
    \/ CaSave
    \/ CaPost

----------------------------------------------------------------------------
(* read_last_line applied to every file content up to a bounded length     *)

MaxLen == 5
ByteAlphabet == {"a", " ", "\n", "\r", InvalidByte}

RECURSIVE SeqsUpTo(_, _)
SeqsUpTo(S, n) ==
    IF n = 0 THEN {<<>>}
    ELSE LET shorter == SeqsUpTo(S, n - 1) IN
         shorter \cup {Append(s, c) : s \in shorter, c \in S}

NotApplied == [ok |-> FALSE, val |-> <<>>, exc |-> Exc("", "not applied")]

RunIdle ==
    /\ pc = "idle" /\ all_metrics = EmptyDict /\ errors = <<>> /\ seen = <<>>
    /\ all_filenames = <<>> /\ idx = 0 /\ collected = NotReturned
    /\ exit_code = -1 /\ pushed = NotPushed /\ fsOps = {} /\ clock = 0
    /\ report = NoReport
ReaderIdle ==
    /\ disk = <<>> /\ wbuf = <<>> /\ complete = <<>> /\ rpos = 0
    /\ last_line = <<>> /\ rpc = "idle" /\ rres = NotApplied
FnIdle == fnIn = <<>> /\ fnOut = NotApplied

InitReadLastLine ==
    /\ RunIdle /\ ReaderIdle
    /\ fnIn \in SeqsUpTo(ByteAlphabet, MaxLen)
    /\ fnOut = NotApplied

ApplyReadLastLine ==
    /\ fnOut = NotApplied
    /\ fnOut' = read_last_line(File(fnIn))
    /\ UNCHANGED <<fnIn, runVars, readerVars>>

SpecReadLastLine == InitReadLastLine /\ [][ApplyReadLastLine]_vars


----------------------------------------------------------------------------
(* Properties of read_last_line as a function of the file content          *)

Applied == fnOut # NotApplied

NewlineChars == {"\n", "\r"}

\* the positions of fnIn that hold a character other than whitespace
InkPositions(t) == {i \in 1..Len(t) : t[i] \notin Whitespace}
MaxOf(S) == CHOOSE x \in S : \A y \in S : y <= x

\* The line around position q, stated without the reader's loop: from just
\* after the last line break before q up to just before the next one.
LineAround(t, q) ==
    LET before == {i \in 1..(q - 1) : t[i] \in NewlineChars}
        after == {i \in (q + 1)..Len(t) : t[i] \in NewlineChars}
        from == IF before = {} THEN 1 ELSE MaxOf(before) + 1
        to == IF after = {} THEN Len(t)
              ELSE (CHOOSE x \in after : \A y \in after : x <= y) - 1
    IN  SubSeq(t, from, to)

\* C6: on every decodable file content read_last_line returns the trimmed
\* text of the last line that holds a non-whitespace character, however many
\* blank lines follow it; and, on every content, it fails as "File is empty"
\* exactly when no line holds a non-whitespace character.
C6_LastNonEmptyLine ==
    Applied =>
        /\ (Utf8Valid(fnIn) /\ InkPositions(fnIn) # {}) =>
              /\ fnOut.ok
              /\ fnOut.val = Strip(LineAround(fnIn, MaxOf(InkPositions(fnIn))))
        /\ (~fnOut.ok /\ fnOut.exc.msg = "File is empty")
              <=> InkPositions(fnIn) = {}

\* a valid line followed by blank lines was read
C6_Witness ==
    /\ Applied /\ fnOut.ok
    /\ fnIn = <<"a", "\n", " ", "\n", "\n">>
    /\ fnOut.val = <<"a">>

\* C8: a file with an invalid byte is still read: the byte is substituted
\* and the last non-empty line is returned.
C8_InvalidBytesTolerated ==
    (Applied /\ InkPositions(fnIn) # {}) =>
        /\ fnOut.ok
        /\ fnOut.val = LastLineOf(DecodeReplace(fnIn)).val

----------------------------------------------------------------------------
(* read_last_line on a file that an external process is appending to       *)

MaxRecords == 2

\* complete records of a channel file: date,time,value and the line break
SampleRecords ==
    { <<"d", ",", "t", ",", "1", "2", "\n">>,
      <<"d", ",", "t", ",", "7", "\n">> }

NotWriting == [rec |-> <<>>, sent |-> 0]

InitReader ==
    /\ RunIdle /\ FnIdle
    /\ \E r \in SampleRecords \cup {<<>>} :
          /\ disk = r
          /\ complete = IF r = <<>> THEN <<>> ELSE <<r>>
    /\ wbuf = NotWriting
    /\ rpos = 0 /\ last_line = <<>> /\ rpc = "closed" /\ rres = NotApplied

\* the external process starts to append one more record
WriterBegin ==
    /\ wbuf = NotWriting
    /\ Len(complete) < MaxRecords
    /\ \E r \in SampleRecords : wbuf' = [rec |-> r, sent |-> 0]
    /\ UNCHANGED <<disk, complete, rpos, last_line, rpc, rres, runVars, fnVars>>

\* one write() of the external process: the next n bytes of its record
WriterWrite ==
    /\ wbuf # NotWriting
    /\ \E n \in 1..(Len(wbuf.rec) - wbuf.sent) :
          /\ disk' = disk \o SubSeq(wbuf.rec, wbuf.sent + 1, wbuf.sent + n)
          /\ IF wbuf.sent + n = Len(wbuf.rec)
             THEN /\ wbuf' = NotWriting
                  /\ complete' = Append(complete, wbuf.rec)
             ELSE /\ wbuf' = [wbuf EXCEPT !.sent = wbuf.sent + n]
                  /\ UNCHANGED complete
    /\ UNCHANGED <<rpos, last_line, rpc, rres, runVars, fnVars>>

\* last_line = ""; open(file_path, "r", encoding="utf-8")
ReaderOpen ==
    /\ rpc = "closed"
    /\ rpc' = "iter"
    /\ rpos' = 0
    /\ last_line' = <<>>
    /\ UNCHANGED <<disk, wbuf, complete, rres, runVars, fnVars>>

\* one iteration of "for line in handle": the handle returns what the file
\* holds from its position up to the next line break, or up to the end of
\* the file when no line break has been written yet.
ReaderNextLine ==
    /\ rpc = "iter"
    /\ rpos < Len(disk)
    /\ LET rest == SubSeq(disk, rpos + 1, Len(disk))
           j == Find(rest, "\n", 1)
           line == IF j > Len(rest) THEN rest ELSE SubSeq(rest, 1, j)
       IN  /\ rpos' = rpos + Len(line)
           /\ last_line' = IF Strip(line) # <<>> THEN line ELSE last_line
    /\ UNCHANGED <<disk, wbuf, complete, rpc, rres, runVars, fnVars>>

\* the handle is at the end of the file: the loop ends, the function returns
ReaderFinish ==
    /\ rpc = "iter"
    /\ rpos = Len(disk)
    /\ rpc' = "done"
    /\ rres' = IF last_line = <<>>
               THEN Raise("ValueError", "File is empty", <<>>)
               ELSE Return(Strip(last_line))
    /\ UNCHANGED <<disk, wbuf, complete, rpos, last_line, runVars, fnVars>>

NextReader ==
    \/ WriterBegin
    \/ WriterWrite
    \/ ReaderOpen
    \/ ReaderNextLine
    \/ ReaderFinish

SpecReader == InitReader /\ [][NextReader]_vars

\* C10: what a read concurrent with the writer returns is a record that the
\* writer has written completely, never a part of the record being appended.
C10_NoTornRecord ==
    (rpc = "done" /\ rres.ok) =>
        \E i \in 1..Len(complete) : rres.val = Strip(complete[i])

----------------------------------------------------------------------------
(* The runs of push_metrics.main and of collectall.main                    *)

Init == RunInit /\ ReaderIdle /\ FnIdle

Spec == Init /\ [][Next]_vars

----------------------------------------------------------------------------
(* Properties of the run                                                   *)

\* What the file that entry e of seen records yields on its own: the items
\* of its parsed record, nothing if it could not be read or parsed.
Files ==
    [status |-> StatusFiles, channel |-> ChannelFiles,
     flowmeter |-> FlowmeterFiles, heaters |-> HeatersFiles,
     channels |-> ValvesFiles, maxigauge |-> MaxigaugeFiles]

Parsed ==
    [status |-> StatusParsed, channel |-> ChannelParsed,
     flowmeter |-> FlowmeterParsed, heaters |-> HeatersParsed,
     channels |-> ValvesParsed, maxigauge |-> MaxigaugeParsed]

IsLogFile(e) == e.kind # "date_dir"
FileOf(e) == Files[e.kind][e.st]
ParsedOk(e) == IsLogFile(e) /\ Parsed[e.kind][e.st].ok

\* key of the channel file called n (nothing if n is no channel file)
ChannelKey ==
    [n \in DirEntries |->
        LET m == CH_FILE_RE_match(n)
        IN  IF m.matched THEN ChannelMetricName(m) ELSE <<>>]

StatusProduced ==
    [st \in StatusStates |->
        IF StatusParsed[st].ok
        THEN InsertStatus(EmptyDict, StatusParsed[st].val) ELSE EmptyDict]

Produced(e) ==
    IF ~ParsedOk(e) THEN EmptyDict
    ELSE CASE e.kind = "status" -> StatusProduced[e.st]
           [] e.kind = "channel" ->
                <<<<ChannelKey[e.name], ChannelParsed[e.st].val>>>>
           [] e.kind = "flowmeter" ->
                <<<<<<"f", "l", "o", "w", "m", "e", "t", "e", "r", "_", "m", "m", "o", "l", "_", "p", "e", "r", "_", "s">>, FlowmeterParsed[e.st].val>>>>
           [] e.kind = "heaters" -> HeatersParsed[e.st].val
           [] e.kind = "channels" -> ValvesParsed[e.st].val
           [] e.kind = "maxigauge" -> MaxigaugeParsed[e.st].val

Attempted == {i \in 1..Len(seen) : IsLogFile(seen[i])}
Succeeded == {i \in Attempted : ParsedOk(seen[i])}
Failed == Attempted \ Succeeded

PerFileErrorsLogged ==
    {i \in 1..Len(errors) : errors[i].what \in PerFileErrors}

\* C1: at every point of collect_all_metrics the mapping holds exactly the
\* keys produced by the files read and parsed successfully so far, each with
\* the value of the last such file that produced it; a file that failed has
\* contributed nothing and has removed or changed nothing.
C1_FailuresAreIsolated ==
    LET succeeded == Succeeded
        keys == [i \in succeeded |-> Keys(Produced(seen[i]))]
    IN  /\ Keys(all_metrics) = UNION {keys[i] : i \in succeeded}
        /\ \A k \in Keys(all_metrics) :
              LET last == MaxOf({i \in succeeded : k \in keys[i]})
              IN  Get(all_metrics, k) = Get(Produced(seen[last]), k)
        /\ Len(all_metrics) = Cardinality(Keys(all_metrics))
        /\ collected.returned => collected.value = all_metrics

\* collection returned after files failed between files that parsed
C1_Witness ==
    /\ pc = "returned"
    /\ \E i, j, k \in Attempted :
          /\ i < j /\ j < k
          /\ i \in Succeeded /\ j \in Failed /\ k \in Succeeded
          /\ Keys(Produced(seen[i])) \subseteq Keys(collected.value)
    /\ {FileOf(seen[i]).kind : i \in Failed} = {"missing", "denied", "file"}

DateFolderSeen ==
    {seen[i].st : i \in {j \in 1..Len(seen) : ~IsLogFile(seen[j])}}

\* C2: when the dated folder is missing or is not a directory, the run is
\* over with exit code 1: collect_all_metrics raised before it read any log
\* file, it returned no mapping, and push_metrics was not called.
C2_NoDateFolderIsFatal ==
    (DateFolderSeen # {} /\ DateFolderSeen # {"dir"}) =>
        /\ pc = "done" /\ exit_code = 1
        /\ Attempted = {}
        /\ \A o \in fsOps : o.root = LOGS_DIR => o.op = "stat"
        /\ ~collected.returned
        /\ all_metrics = EmptyDict
        /\ ~pushed.called
        /\ errors[Len(errors)].what = "Data collection error"

C2_Witness ==
    /\ pc = "done"
    /\ DateFolderSeen = {"file"}

FixedNames ==
    {status_name, flowmeter_name, heaters_name, channels_name, maxigauge_name}

\* every fixed-name file and every discovered channel file was attempted
AllAttempted ==
    /\ FixedNames \subseteq {seen[i].name : i \in Attempted}
    /\ \A n \in 1..Len(all_filenames) :
          CH_FILE_RE_match(all_filenames[n]).matched =>
              all_filenames[n] \in {seen[i].name : i \in Attempted}

NoMetricsExit ==
    /\ pc = "done"
    /\ errors # <<>>
    /\ errors[Len(errors)].what = "No metrics collected -- nothing to push"

\* C3: with the dated folder present, the run ends for lack of data only
\* when the merged mapping is empty and only after every fixed-name file and
\* every discovered channel file has been attempted; a run in which at least
\* one file parsed hands its mapping to push_metrics.
C3_FatalOnlyWhenEmpty ==
    /\ NoMetricsExit =>
          /\ collected.returned /\ collected.value = EmptyDict
          /\ AllAttempted
          /\ Succeeded = {}
    /\ (pc = "done" /\ DateFolderSeen = {"dir"} /\ ~pushed.called) =>
          /\ NoMetricsExit
          /\ exit_code = 1
    /\ (pc = "done" /\ Succeeded # {}) =>
          /\ pushed.called
          /\ pushed.arg = collected.value
          /\ pushed.arg # EmptyDict

\* a partial success reached the push: some files failed, some parsed
C3_Witness ==
    /\ pc = "done"
    /\ Succeeded # {} /\ Failed # {}
    /\ pushed.called /\ pushed.delivered

StatusEntry == {i \in Attempted : seen[i].kind = "status"}
ChannelEntries == {i \in Attempted : seen[i].kind = "channel"}
OtherFixedEntries ==
    {i \in Attempted : seen[i].kind \notin {"status", "channel"}}

\* collection returned a non-empty mapping, which main hands to the push
CollectionSucceeded ==
    /\ collected.returned /\ collected.value # EmptyDict
    /\ pc = "done" => (pushed.called /\ pushed.arg = collected.value)

OneErrorForStatus ==
    /\ Cardinality(PerFileErrorsLogged) = 1
    /\ \A i \in PerFileErrorsLogged :
          /\ errors[i].what = "Status file error"
          /\ errors[i].file = status_name

\* C4 as stated: the status file is missing, the other fixed files and at
\* least one channel file parse; then collection succeeds with a non-empty
\* mapping and exactly one per-file error, the status file's.
C4_Original ==
    (/\ pc \in {"returned", "push", "done"}
     /\ \A i \in StatusEntry : seen[i].st = "missing"
     /\ OtherFixedEntries \subseteq Succeeded
     /\ ChannelEntries \cap Succeeded # {}
     /\ collected.returned)
        => (CollectionSucceeded /\ OneErrorForStatus)

\* C4, amended: the status file is missing, the other fixed files parse, the
\* folder was listed, and every discovered channel file (at least one)
\* parses; then collection succeeds with a non-empty mapping and exactly one
\* per-file error, the status file's.
C4_StatusMissingOnly ==
    (/\ pc \in {"returned", "push", "done"}
     /\ \A i \in StatusEntry : seen[i].st = "missing"
     /\ OtherFixedEntries \subseteq Succeeded
     /\ ChannelEntries # {}
     /\ ChannelEntries \subseteq Succeeded
     /\ collected.returned)
        => (CollectionSucceeded /\ OneErrorForStatus)

C4_Witness ==
    /\ pc = "returned"
    /\ \A i \in StatusEntry : seen[i].st = "missing"
    /\ OtherFixedEntries \subseteq Succeeded
    /\ Cardinality(ChannelEntries) = 2
    /\ ChannelEntries \subseteq Succeeded
    /\ OneErrorForStatus

\* the registry that went to push_to_gateway holds the heartbeat gauge, set
\* to the time of the push
HeartbeatSent ==
    /\ pushed.sent
    /\ \E i \in 1..Len(pushed.registry) :
          /\ pushed.registry[i].name = HeartbeatName
          /\ pushed.registry[i].value = [m |-> clock - 1, e |-> 0]

\* C5 as stated: every run in which collection was executed delivers a
\* heartbeat, also when the mapping is empty.
C5_Original ==
    (pc = "done" /\ collected.returned) => HeartbeatSent

\* C5, amended: every registry that push_metrics hands to push_to_gateway
\* holds the heartbeat gauge set to the current time, and for an empty
\* mapping push_metrics would build the heartbeat gauge alone; but a run of
\* main whose mapping is empty returns 1 without calling push_metrics and
\* sends no heartbeat.
C5_HeartbeatWithEveryPush ==
    /\ (pc = "done" /\ pushed.sent) => HeartbeatSent
    /\ LET r == BuildRegistry(EmptyDict, clock)
       IN  /\ r.ok /\ Len(r.val) = 1
           /\ r.val[1].name = HeartbeatName
           /\ r.val[1].value = [m |-> clock, e |-> 0]
    /\ (pc = "done" /\ collected.returned /\ collected.value = EmptyDict) =>
          /\ ~pushed.called /\ ~pushed.sent
          /\ exit_code = 1

C5_Witness ==
    /\ pc = "done" /\ HeartbeatSent /\ pushed.delivered
    /\ Failed # {}

\* The failure kind of a file that fails, from what the file is.
KindOfFile(f) ==
    CASE f.kind = "missing" -> "NotFound"
      [] f.kind = "denied" -> "PermissionDenied"
      [] f.kind = "ioerror" -> "IOError"
      [] ~Utf8Valid(f.bytes) -> "IOError"
      [] InkPositions(f.bytes) = {} -> "EmptyFile"
      [] OTHER -> "MalformedLine"

TrueKind ==
    [k \in DOMAIN Files |-> [st \in DOMAIN Files[k] |-> KindOfFile(Files[k][st])]]

TrueKindOf(e) == TrueKind[e.kind][e.st]

ReadFailures == {"NotFound", "PermissionDenied", "IOError", "EmptyFile"}

\* C7: every per-file failure is logged with the name of its file and with
\* an exception that tells its kind: two failures of different kinds differ
\* in the logged text, and two read failures of different kinds (not found,
\* permission denied, other read failure, empty file) also differ in the
\* type of the exception.
C7_FailureKindsDistinct ==
    LET failed == SelectSeq(seen, LAMBDA e : IsLogFile(e) /\ ~ParsedOk(e))
        logged == SelectSeq(errors, LAMBDA r : r.what \in PerFileErrors)
        kind == [i \in 1..Len(failed) |-> TrueKindOf(failed[i])]
    IN  \* the failures are logged one by one, in the order they happen
        /\ Len(logged) = Len(failed)
        /\ \A i \in 1..Len(logged) :
              /\ logged[i].file = failed[i].name
              /\ logged[i].exc # NoExc
        /\ \A i, j \in 1..Len(logged) :
              kind[i] # kind[j] =>
                /\ logged[i].exc.msg # logged[j].exc.msg
                /\ (kind[i] \in ReadFailures /\ kind[j] \in ReadFailures) =>
                      logged[i].exc.type # logged[j].exc.type

\* the failure kinds that the per-file errors logged so far stand for
KindsLogged ==
    {TrueKindOf(seen[j]) :
        j \in {k \in Failed : \E i \in PerFileErrorsLogged :
                                 seen[k].name = errors[i].file}}

C7_Witness ==
    KindsLogged = ReadFailures \cup {"MalformedLine"}

ReadOnlyOps == {"stat", "listdir", "open_r", "open_rb"}

\* C9: every file-system operation that a run of push_metrics or of
\* collectall issues under the logs root is a read (stat, listdir, open for
\* reading); everything that creates or writes a file is done on a file of
\* the script's own directory.  (The script's directory is taken not to lie
\* under the logs root.)
C9_LogsRootUntouched ==
    \A o \in fsOps :
        /\ o.root \in {SCRIPT_DIR, LOGS_DIR}
        /\ o.root = LOGS_DIR => o.op \in ReadOnlyOps
        /\ o.op \notin ReadOnlyOps => o.root = SCRIPT_DIR

\* a push run that checked the folder, listed it, read log files, logged
\* and pushed
C9_Witness ==
    /\ pc = "done" /\ pushed.delivered
    /\ {o.op : o \in {x \in fsOps : x.root = LOGS_DIR}}
          = {"stat", "listdir", "open_r"}
    /\ LogWrite \in fsOps

----------------------------------------------------------------------------
(* The parsers as functions of one line                                    *)

\* sep.join(fields)
RECURSIVE Join(_, _)
Join(fields, sep) ==
    IF fields = <<>> THEN <<>>
    ELSE IF Len(fields) = 1 THEN fields[1]
    ELSE fields[1] \o <<sep>> \o Join(Tail(fields), sep)

\* the sequences of 1..n fields whose first two are drawn from P and whose
\* other fields are drawn from F
RECURSIVE FieldSeqs(_, _, _)
FieldSeqs(P, F, n) ==
    IF n = 0 THEN {}
    ELSE IF n = 1 THEN {<<p>> : p \in P}
    ELSE LET shorter == FieldSeqs(P, F, n - 1)
             longest == {s \in shorter : Len(s) = n - 1}
         IN  shorter \cup {Append(s, f) : s \in longest,
                                          f \in IF n = 2 THEN P ELSE F}

MaxFields == 6

\* the date and time fields, which every parser discards
PrefixFields == {<<>>, <<"d">>}

FnApplied == fnOut.exc.msg # "not applied"

\* ---- parse_status_line ----
StatusFields == {<<>>, <<" ">>, <<"a">>, <<"b">>, <<"1">>, <<" ", "-", "2", ".", "5", "e", "1">>}

InitStatusLine ==
    /\ RunIdle /\ ReaderIdle
    /\ fnIn \in {Join(fs, ",") : fs \in FieldSeqs(PrefixFields, StatusFields,
                                                  MaxFields)}
    /\ fnOut = NotApplied

ApplyStatusLine ==
    /\ ~FnApplied
    /\ fnOut' = parse_status_line(fnIn)
    /\ UNCHANGED <<fnIn, runVars, readerVars>>

SpecStatusLine == InitStatusLine /\ [][ApplyStatusLine]_vars

\* the trimmed fields of the line, and its key/value pairs
FieldsOf(line) == StripAll(Split(line, ","))
PairCount(line) == (Len(FieldsOf(line)) - 2) \div 2
KeyAt(line, j) == FieldsOf(line)[2 * j + 1]
ValueAt(line, j) == FieldsOf(line)[2 * j + 2]

EvenPairs(line) ==
    Len(FieldsOf(line)) >= 4 /\ (Len(FieldsOf(line)) - 2) % 2 = 0

WellFormedStatus(line) ==
    /\ EvenPairs(line)
    /\ \A j \in 1..PairCount(line) :
          KeyAt(line, j) # <<>> /\ float(ValueAt(line, j)).ok

DistinctKeys(line) ==
    \A i, j \in 1..PairCount(line) :
        KeyAt(line, i) = KeyAt(line, j) => i = j

\* C11 as stated: a well-formed line with k pairs yields exactly k entries,
\* each value the float of its source text.
C11_Original ==
    (FnApplied /\ WellFormedStatus(fnIn)) =>
        /\ fnOut.ok
        /\ Len(fnOut.val) = PairCount(fnIn)
        /\ \A j \in 1..PairCount(fnIn) :
              Get(fnOut.val, KeyAt(fnIn, j)) = float(ValueAt(fnIn, j)).val

\* C11, amended: a well-formed line yields one entry per distinct key, the
\* value of a key being the float of the text of its last occurrence; a line
\* of k pairs with pairwise distinct keys yields exactly k entries.
C11_OneEntryPerKey ==
    (FnApplied /\ WellFormedStatus(fnIn)) =>
        LET k == PairCount(fnIn)
            keys == {KeyAt(fnIn, j) : j \in 1..k}
        IN  /\ fnOut.ok
            /\ Keys(fnOut.val) = keys
            /\ Len(fnOut.val) = Cardinality(keys)
            /\ \A j \in 1..k :
                  (\A i \in (j + 1)..k : KeyAt(fnIn, i) # KeyAt(fnIn, j)) =>
                      Get(fnOut.val, KeyAt(fnIn, j))
                          = float(ValueAt(fnIn, j)).val
            /\ DistinctKeys(fnIn) => Len(fnOut.val) = k

\* a line of two pairs with different keys was parsed
C11_Witness ==
    /\ FnApplied /\ fnOut.ok
    /\ fnIn = <<"d", ",", "d", ",", "a", ",", "1", ",", "b", ",", " ", "-", "2", ".", "5", "e", "1">>
    /\ fnOut.val = << <<<<"a">>, [m |-> 1, e |-> 0]>>,
                      <<<<"b">>, [m |-> -25, e |-> 0]>> >>

ValveFields == {<<>>, <<"V", "-", "1", " ">>, <<"v", "1">>, <<"1">>, <<"0">>}

InitValves ==
    /\ RunIdle /\ ReaderIdle
    /\ fnIn \in {Join(fs, ",") : fs \in FieldSeqs(PrefixFields, ValveFields,
                                                  MaxFields)}
    /\ fnOut = NotApplied

ApplyValves ==
    /\ ~FnApplied
    /\ fnOut' = parse_channels_file(File(fnIn))
    /\ UNCHANGED <<fnIn, runVars, readerVars>>

SpecValves == InitValves /\ [][ApplyValves]_vars

\* one-for-one replacement of the characters outside [A-Za-z0-9_]
ReplacedOneForOne(name) ==
    [i \in 1..Len(name) |-> IF name[i] \in WordChars THEN name[i] ELSE "_"]

ValveKey(name) == <<"v", "a", "l", "v", "e", "_">> \o ReplacedOneForOne(name)

\* C13: every raw valve name of a parsed record is stored under 'valve_'
\* followed by the name with each character outside [A-Za-z0-9_] replaced
\* one-for-one by '_', so that the raw name 'V-1 ' is stored as 'valve_V_1_'.
C13_RawNameSanitised ==
    (FnApplied /\ fnOut.ok) =>
        LET raw == Split(fnIn, ",") IN
        \A i \in 4..Len(raw) :
            (i % 2 = 0 /\ i + 1 <= Len(raw)) =>
                ValveKey(raw[i]) \in Keys(fnOut.val)

\* ---- parse_maxigauge_file ----
MaxBlocks == 2

\* blocks of six fields: label, name, status, pressure, and two more
MaxigaugeBlocks ==
    {<<label, <<"A">>, <<"O", "K">>, pressure, <<"0">>, <<"0">>>> :
        label \in {<<"C", "H", "1">>, <<"c", "h", "1">>, <<"C", "H", "2">>},
        pressure \in {<<"2", ".", "2", "7", "E", "-", "6">>, <<"1", ".", "5", "E", "-", "3">>, <<"x">>}}

\* fields after the last complete block
TrailingFields == {<<>>, <<<<"C", "H", "3">>>>, <<<<"C", "H", "3">>, <<"A">>, <<"O", "K">>, <<"x">>, <<"0">>>>}

RECURSIVE Flatten(_)
Flatten(seqs) == IF seqs = <<>> THEN <<>> ELSE Head(seqs) \o Flatten(Tail(seqs))

InitMaxigauge ==
    /\ RunIdle /\ ReaderIdle
    /\ fnIn \in {Join(<<<<"d", "1">>, <<"t", "1">>>> \o Flatten(blocks) \o trailing, ",") :
                    blocks \in SeqsUpTo(MaxigaugeBlocks, MaxBlocks),
                    trailing \in TrailingFields}
    /\ fnOut = NotApplied

ApplyMaxigauge ==
    /\ ~FnApplied
    /\ fnOut' = parse_maxigauge_file(File(fnIn))
    /\ UNCHANGED <<fnIn, runVars, readerVars>>

SpecMaxigauge == InitMaxigauge /\ [][ApplyMaxigauge]_vars

BlockCount(line) == (Len(FieldsOf(line)) - 2) \div 6
LabelAt(line, j) == FieldsOf(line)[6 * j - 3]
PressureAt(line, j) == FieldsOf(line)[6 * j]
PressureKey(label) == <<"m", "a", "x", "i", "g", "a", "u", "g", "e", "_">> \o Lower(label) \o <<"_", "p", "r", "e", "s", "s", "u", "r", "e", "_", "m", "b", "a", "r">>

NumericBlocks(line) ==
    \A j \in 1..BlockCount(line) : float(PressureAt(line, j)).ok

\* C14 as stated: n complete blocks give n entries, one per block.
C14_Original ==
    FnApplied =>
        LET n == BlockCount(fnIn) IN
        /\ n = 0 => (~fnOut.ok /\ fnOut.exc.type = "ValueError")
        /\ (n >= 1 /\ NumericBlocks(fnIn)) =>
              /\ fnOut.ok
              /\ Len(fnOut.val) = n
              /\ \A j \in 1..n :
                    Get(fnOut.val, PressureKey(LabelAt(fnIn, j)))
                        = float(PressureAt(fnIn, j)).val

\* C14, amended: a record with n >= 1 complete blocks whose pressure fields
\* are numeric gives one entry per distinct lowercased label, keyed
\* maxigauge_<label>_pressure_mbar, with the 4th field of the last block of
\* that label (n entries when the labels differ); fields after the last
\* complete block are ignored; with n = 0 the parser raises ValueError.
C14_OneEntryPerLabel ==
    FnApplied =>
        LET n == BlockCount(fnIn)
            keys == {PressureKey(LabelAt(fnIn, j)) : j \in 1..n}
        IN  /\ n = 0 => (~fnOut.ok /\ fnOut.exc.type = "ValueError")
            /\ (n >= 1 /\ NumericBlocks(fnIn)) =>
                  /\ fnOut.ok
                  /\ Keys(fnOut.val) = keys
                  /\ Len(fnOut.val) = Cardinality(keys)
                  /\ \A j \in 1..n :
                        (\A i \in (j + 1)..n :
                            Lower(LabelAt(fnIn, i)) # Lower(LabelAt(fnIn, j))) =>
                                Get(fnOut.val, PressureKey(LabelAt(fnIn, j)))
                                    = float(PressureAt(fnIn, j)).val
                  /\ Cardinality(keys) = n => Len(fnOut.val) = n

\* the record d1,t1,CH1,A,OK,2.27E-6,0,0,CH2,A,OK,1.5E-3,0,0 followed by an
\* incomplete block gave two entries
C14_Witness ==
    /\ FnApplied
    /\ fnIn = <<"d", "1", ",", "t", "1", ",", "C", "H", "1", ",", "A", ",", "O", "K", ",", "2", ".", "2", "7", "E", "-", "6", ",", "0", ",", "0", ",", "C", "H", "2", ",", "A", ",", "O", "K", ",", "1", ".", "5", "E", "-", "3", ",", "0", ",", "0", ",", "C", "H", "3", ",", "A", ",", "O", "K", ",", "x", ",", "0">>
    /\ fnOut.ok
    /\ fnOut.val = << <<<<"m", "a", "x", "i", "g", "a", "u", "g", "e", "_", "c", "h", "1", "_", "p", "r", "e", "s", "s", "u", "r", "e", "_", "m", "b", "a", "r">>, [m |-> 227, e |-> -8]>>,
                      <<<<"m", "a", "x", "i", "g", "a", "u", "g", "e", "_", "c", "h", "2", "_", "p", "r", "e", "s", "s", "u", "r", "e", "_", "m", "b", "a", "r">>, [m |-> 15, e |-> -4]>> >>

\* ---- parse_channel_file, parse_flowmeter_file ----
MaxApplications == 2

SingleFields == {<<>>, <<" ", "3">>, <<"2", ".", "5", "e", "1">>, <<"x">>}

\* fnOut is the sequence of the results of the calls made so far
InitSingleValue ==
    /\ RunIdle /\ ReaderIdle
    /\ fnIn \in {Join(fs, ",") : fs \in FieldSeqs(PrefixFields, SingleFields,
                                                  MaxFields)}
    /\ fnOut = <<>>

ApplyChannel ==
    /\ Len(fnOut) < MaxApplications
    /\ fnOut' = Append(fnOut, [fn |-> "parse_channel_file",
                               r |-> parse_channel_file(File(fnIn))])
    /\ UNCHANGED <<fnIn, runVars, readerVars>>

ApplyFlowmeter ==
    /\ Len(fnOut) < MaxApplications
    /\ fnOut' = Append(fnOut, [fn |-> "parse_flowmeter_file",
                               r |-> parse_flowmeter_file(File(fnIn))])
    /\ UNCHANGED <<fnIn, runVars, readerVars>>

SpecSingleValue == InitSingleValue /\ [][ApplyChannel \/ ApplyFlowmeter]_vars

IsPrefix(p, s) == Len(p) <= Len(s) /\ SubSeq(s, 1, Len(p)) = p

\* raw keys: the catalogue's, every leading part of a catalogue name, and
\* keys the catalogue does not know
ResolutionKeys ==
    RawKeys
    \cup UNION {{SubSeq(n, 1, k) : k \in 1..Len(n)} : n \in MetricNames}
    \cup {<<"x">>, <<"v", "1">>, <<"c", "t", "r", "l", "_">>, <<"h", "e", "a", "t", "e", "r", "_", "0", "_", "w", "a", "t", "t", "s">>}

InitMetricName ==
    /\ RunIdle /\ ReaderIdle
    /\ fnIn \in {k \in ResolutionKeys : Len(k) <= Len(<<"c", "t", "r", "l", "_", "p", "r", "e", "s", "_", "m", "b", "a", "r">>)}
    /\ fnOut = NotApplied

ApplyMetricName ==
    /\ ~FnApplied
    /\ fnOut' = Return(get_metric_name_for_raw_key(fnIn))
    /\ UNCHANGED <<fnIn, runVars, readerVars>>

SpecMetricName == InitMetricName /\ [][ApplyMetricName]_vars

\* the catalogue names of the form raw_key + '_' + suffix
PrefixMatches(raw_key) == {n \in MetricNames : IsPrefix(raw_key \o <<"_">>, n)}

\* C16: resolution returns the catalogue name of an exactly matching raw
\* key; failing that, a catalogue name of the form raw_key + '_' + suffix;
\* failing that, the raw key unchanged.
C16_ThreeStepResolution ==
    FnApplied =>
        IF fnIn \in RawKeys
        THEN \E i \in 1..Len(METRIC_METADATA) :
                /\ METRIC_METADATA[i].raw = fnIn
                /\ fnOut.val = METRIC_METADATA[i].metric_name
        ELSE IF PrefixMatches(fnIn) # {}
        THEN fnOut.val \in PrefixMatches(fnIn)
        ELSE fnOut.val = fnIn

----------------------------------------------------------------------------
(* Properties of the collected mapping and of main                         *)

\* the place of each kind of source in collect_all_metrics
SourceRank ==
    [status |-> 1, channel |-> 2, flowmeter |-> 3, heaters |-> 4,
     channels |-> 5, maxigauge |-> 6]

Ch1Kelvin == <<"c", "h", "1", "_", "t", "_", "k", "e", "l", "v", "i", "n">>

\* C17: the sources are processed in the order status file, channel files
\* by sorted file name, flowmeter, heaters, channels, maxigauge; a name
\* produced by several sources holds in the returned mapping the value of
\* the last of them, and the mapping holds one entry per name.
C17_LastWriterWins ==
    collected.returned =>
        LET files == SelectSeq(seen, IsLogFile)
            n == Len(files)
        IN  /\ \A i, j \in 1..n :
                  i < j =>
                      /\ SourceRank[files[i].kind] <= SourceRank[files[j].kind]
                      /\ (files[i].kind = "channel" /\ files[j].kind = "channel")
                            => StrLess(files[i].name, files[j].name)
            /\ \A k \in Keys(collected.value) :
                  LET writers == {i \in 1..n : /\ ParsedOk(files[i])
                                               /\ k \in Keys(Produced(files[i]))}
                  IN  /\ writers # {}
                      /\ Get(collected.value, k)
                            = Get(Produced(files[MaxOf(writers)]), k)
            /\ \A i, j \in 1..Len(collected.value) :
                  collected.value[i][1] = collected.value[j][1] => i = j

\* the status file and the file of channel 1 both gave ch1_t_kelvin, and
\* the returned mapping holds the channel file's value
C17_Witness ==
    /\ collected.returned
    /\ \E i, j \in 1..Len(seen) :
          /\ i < j
          /\ seen[i].kind = "status" /\ ParsedOk(seen[i])
          /\ seen[j].kind = "channel" /\ ParsedOk(seen[j])
          /\ Ch1Kelvin \in Keys(Produced(seen[i]))
          /\ Ch1Kelvin \in Keys(Produced(seen[j]))
          /\ Get(Produced(seen[i]), Ch1Kelvin) = [m |-> 15, e |-> -1]
          /\ Get(Produced(seen[j]), Ch1Kelvin) = [m |-> 3, e |-> 0]
    /\ Get(collected.value, Ch1Kelvin) = [m |-> 3, e |-> 0]

\* CH<digits> <T|R> <date>.log, where only the T or R may be of either case
NamedAsChannelFile(s) ==
    LET n == Len(s)
        d == DigitRun(s, 3)
        w == SpaceRun(s, d)
        v == SpaceRun(s, w + 1)
    IN  /\ n >= 2 /\ s[1] = "C" /\ s[2] = "H"
        /\ d > 3
        /\ w > d
        /\ w <= n /\ s[w] \in {"T", "t", "R", "r"}
        /\ v > w + 1
        /\ n = v + 11
        /\ \A k \in {0, 1, 3, 4, 6, 7} : IsDigit(s[v + k])
        /\ s[v + 2] = "-" /\ s[v + 5] = "-"
        /\ SubSeq(s, v + 8, v + 11) = <<".", "l", "o", "g">>

NamedChannelKey(s) ==
    <<"c", "h">> \o SubSeq(s, 3, DigitRun(s, 3) - 1)
        \o (IF s[SpaceRun(s, DigitRun(s, 3))] \in {"T", "t"}
            THEN <<"_", "t", "_", "k", "e", "l", "v", "i", "n">> ELSE <<"_", "r", "_", "o", "h", "m", "s">>)

\* C18: the entries read as channel files are exactly the listed entries
\* named CH<digits> <T|R> <date>.log, the T or R in either case, and the
\* value parsed from one is stored as it is under ch<N>_t_kelvin or
\* ch<N>_r_ohms, channels 6 and 9 included.
C18_ChannelFilesByName ==
    /\ \A i \in 1..Len(seen) :
          seen[i].kind = "channel" =>
              /\ NamedAsChannelFile(seen[i].name)
              /\ \E j \in 1..Len(all_filenames) :
                    all_filenames[j] = seen[i].name
    /\ collected.returned =>
          \A j \in 1..Len(all_filenames) :
              NamedAsChannelFile(all_filenames[j]) =>
                  \E i \in 1..Len(seen) :
                      /\ seen[i].kind = "channel"
                      /\ seen[i].name = all_filenames[j]
                      /\ ParsedOk(seen[i]) =>
                            /\ NamedChannelKey(seen[i].name)
                                  \in Keys(collected.value)
                            /\ Get(collected.value,
                                   NamedChannelKey(seen[i].name))
                                  = ChannelParsed[seen[i].st].val

ConfigLoaded ==
    /\ FsOp(SCRIPT_DIR, ".env", "open_r") \in fsOps
    /\ \A i \in 1..Len(errors) : errors[i].what # "Configuration error"

MainReturned == pc = "done"

C19_ExitCode ==
    /\ MainReturned =>
          /\ exit_code \in {0, 1}
          /\ exit_code = 0 <=> (pushed.called /\ pushed.sent /\ pushed.delivered)
    /\ pushed.called =>
          /\ ConfigLoaded
          /\ collected.returned
          /\ pushed.arg = collected.value
          /\ pushed.arg # EmptyDict
          /\ MainReturned

C19_PushedOnce == pushed.called => pushed' = pushed

\* C19: main returns 0 exactly when push_metrics was called and completed
\* without error, and 1 on every other path; push_metrics is called at most
\* once, after the configuration was loaded and collect_all_metrics
\* returned, and never with an empty mapping.
C19_ExitZeroIffPushed == [](C19_ExitCode) /\ [][C19_PushedOnce]_vars

\* main returned 0 after a push that was delivered
C19_Witness ==
    /\ MainReturned /\ exit_code = 0
    /\ pushed.called /\ pushed.delivered
    /\ Len(pushed.arg) >= 1
    /\ ConfigLoaded

\* ---- push_metrics on a mapping that collect_all_metrics returns ----
GaugeFields == {<<"a", "-", "b">>, <<"a", "_", "b">>, <<"x">>, <<"1">>, <<"l", "a", "s", "t", "_", "p", "u", "s", "h", "_", "t", "i", "m", "e", "s", "t", "a", "m", "p", "_", "s", "e", "c", "o", "n", "d", "s">>}

\* the mapping collect_all_metrics returns when the status file ends in
\* line and no other file can be read
StatusOnly(line) ==
    IF parse_status_line(line).ok
    THEN InsertStatus(EmptyDict, parse_status_line(line).val)
    ELSE EmptyDict

NotCalled ==
    [ok |-> FALSE, val |-> <<>>,
     exc |-> Exc("", "No metrics collected -- nothing to push")]

InitPush ==
    /\ RunIdle /\ ReaderIdle
    /\ fnIn \in {Join(fs, ",") : fs \in FieldSeqs(PrefixFields, GaugeFields,
                                                  MaxFields)}
    /\ fnOut = NotApplied

\* main from the test of the mapping to push_to_gateway
ApplyPush ==
    /\ ~FnApplied
    /\ fnOut' = IF IsEmptyDict(StatusOnly(fnIn)) THEN NotCalled
                ELSE BuildRegistry(StatusOnly(fnIn), 0)
    /\ UNCHANGED <<fnIn, runVars, readerVars>>

SpecPush == InitPush /\ [][ApplyPush]_vars

\* C20: a non-empty collected mapping is registered without a refusal, one
\* gauge per entry, under names that differ from each other and from the
\* heartbeat's: no two collected keys are sanitised to the same name.
C20_GaugeNamesDistinct ==
    (FnApplied /\ ~IsEmptyDict(StatusOnly(fnIn))) =>
        LET metrics == StatusOnly(fnIn) IN
        /\ \A i, j \in 1..Len(metrics) :
              i # j => _safe_metric_name(metrics[i][1])
                          # _safe_metric_name(metrics[j][1])
        /\ \A i \in 1..Len(metrics) :
              _safe_metric_name(metrics[i][1]) # HeartbeatName
        /\ fnOut.ok
        /\ Len(fnOut.val) = Len(metrics) + 1

====
